---- MODULE Spec2Model ----
(***************************************************************************)
(* The analysis job orchestrator of big-five-tester: the in-memory job     *)
(* store (jobs.rs), the start_analysis / get_analysis_status server        *)
(* functions with the detached runner task (components/results.rs) and the *)
(* analysis pipeline (ai/pipeline.rs, ai/prompts.rs, ai/error.rs), with    *)
(* the results page's request_ai poll loop as their caller.                *)
(*                                                                         *)
(* Strings the code inspects character by character (the user context,     *)
(* the safeguard reply) are sequences of one-character strings; strings    *)
(* the code only moves around (generated texts, model names) are atoms.    *)
(***************************************************************************)
EXTENDS Integers, Sequences, FiniteSets, TLC

VARIABLES
    config,     \* the AiConfig the pipeline reads (loaded once, never mutated)
    now,        \* the monotonic clock (Instant::now), in seconds
    jobs,       \* JOB_STORE.jobs: job id -> [status, created_at]
    issued,     \* how many job ids generate_job_id has handed out (ids 1..issued)
    task,       \* per issued id: the start_analysis call and its spawned task
    handler,    \* per handler slot: a get_analysis_status call in flight
    log,        \* per issued id: what the store and the provider saw (history)
    client,     \* the results page's request_ai task (the browser side)
    db,         \* the saved results: stored analyses and the calls that stored them
    file,       \* ai_config.toml as load_config finds it: its content or a failure
    cell,       \* CONFIG, the OnceCell that get_config fills on first success
    env,        \* the process environment: the names of the variables that are set
    dotenv,     \* the .env file: the names dotenvy::dotenv() adds to the environment
    proc,       \* main: its position and what its start-up get_config returned
    probe       \* one call of a config or provider function: arguments, position, result

vars == <<config, now, jobs, issued, task, handler, log, client, db,
          file, cell, env, dotenv, proc, probe>>

----------------------------------------------------------------------------
(* Bounds of the model.                                                    *)

MaxJobs == 2        \* start_analysis calls explored
MaxHandlers == 2    \* concurrent get_analysis_status calls
MaxTime == 5400     \* the clock stops advancing here
TickSecs == 1800    \* the resolution of the clock
MaxPresets == 2     \* model presets in a configuration file
MaxBlocks == 3      \* content blocks in a provider response
MaxEntries == 3     \* records in a store handed to create_job
MaxEdits == 2       \* departures of an answer list from a complete one

(* Program constants.                                                      *)

MAX_AGE == 3600     \* cleanup_old_jobs: Duration::from_secs(3600)
API_TIMEOUT == 180  \* provider: Duration::from_secs(180)
MAX_POLL_ATTEMPTS == 60  \* results.rs: the poll loop's limit
ANSWER_COUNT == 120      \* scoring.rs: calculate, answers.len() != 120
FACET_QUESTIONS == 4     \* scoring.rs: calculate, scores.len() != 4

----------------------------------------------------------------------------
(* Option<T>                                                               *)

None == [tag |-> "None"]
Some(x) == [tag |-> "Some", v |-> x]
IsSome(o) == o.tag = "Some"

(* Result<T, E>                                                            *)

Ok(x) == [tag |-> "Ok", v |-> x]
Err(e) == [tag |-> "Err", e |-> e]
IsOk(r) == r.tag = "Ok"

----------------------------------------------------------------------------
(* str helpers: trim, is_empty, to_uppercase, contains.                    *)

IsWhitespace(c) == c \in {" ", "\t", "\n", "\r"}

RECURSIVE TrimStart(_)
TrimStart(s) ==
    IF s # <<>> /\ IsWhitespace(Head(s)) THEN TrimStart(Tail(s)) ELSE s

RECURSIVE TrimEnd(_)
TrimEnd(s) ==
    IF s # <<>> /\ IsWhitespace(s[Len(s)])
    THEN TrimEnd(SubSeq(s, 1, Len(s) - 1))
    ELSE s

Trim(s) == TrimEnd(TrimStart(s))

LowerCase == <<"a", "b", "c", "d", "e", "f", "g", "h", "i", "j", "k", "l", "m",
               "n", "o", "p", "q", "r", "s", "t", "u", "v", "w", "x", "y", "z">>
UpperCase == <<"A", "B", "C", "D", "E", "F", "G", "H", "I", "J", "K", "L", "M",
               "N", "O", "P", "Q", "R", "S", "T", "U", "V", "W", "X", "Y", "Z">>

CharToUpper(c) ==
    IF \E i \in 1..Len(LowerCase) : LowerCase[i] = c
    THEN UpperCase[CHOOSE i \in 1..Len(LowerCase) : LowerCase[i] = c]
    ELSE c

ToUppercase(s) == [i \in 1..Len(s) |-> CharToUpper(s[i])]

RECURSIVE Contains(_, _)
Contains(s, pat) ==
    IF Len(pat) > Len(s) THEN FALSE
    ELSE IF SubSeq(s, 1, Len(pat)) = pat THEN TRUE
    ELSE Contains(Tail(s), pat)

----------------------------------------------------------------------------
(* config: SourceLanguage, and the configuration as ai/pipeline.rs reads   *)
(* it: config.api, config.analysis, config.safeguard, config.translation.  *)

SourceLanguage == {"En", "Ru", "Zh"}

Code(l) == CASE l = "En" -> "en" [] l = "Ru" -> "ru" [] l = "Zh" -> "zh"

Name(l) == CASE l = "En" -> "English" [] l = "Ru" -> "Russian" [] l = "Zh" -> "Chinese"

ApiOverrides(api) == {None, Some(api)}

SafeguardConfigs ==
    {[enabled |-> e, model |-> "safeguard-model", max_tokens |-> 1024, api |-> a] :
        e \in BOOLEAN, a \in ApiOverrides("safeguard-api")}

TranslationConfigs ==
    {[enabled |-> e, source_language |-> l, model |-> "translation-model",
      max_tokens |-> 4096, api |-> a] :
        e \in BOOLEAN, l \in SourceLanguage, a \in ApiOverrides("translation-api")}

AiConfig(sg, tr) ==
    [api |-> "main-api",
     analysis |-> [model |-> "analysis-model", max_tokens |-> 8192],
     safeguard |-> sg,
     translation |-> tr]

AllConfigs ==
    {AiConfig(sg, tr) :
        sg \in {None} \cup {Some(c) : c \in SafeguardConfigs},
        tr \in {None} \cup {Some(c) : c \in TranslationConfigs}}

(* config/mod.rs: ConfigError, and the configuration file as the module    *)
(* reads it: an optional safeguard block and the list of model presets,    *)
(* each API block naming its provider, its key variable and its URL.       *)

Validation(m) == [variant |-> "Validation", msg |-> m]

LoadFailures ==
    {[variant |-> "ReadFile", msg |-> "No such file or directory (os error 2)"],
     [variant |-> "Parse", msg |-> "expected an equals, found eof"]}

ConfigErrorDisplay(e) ==
    CASE e.variant = "ReadFile" ->
            "Failed to read config file 'ai_config.toml': " \o e.msg
      [] e.variant = "Parse" ->
            "Failed to parse config file 'ai_config.toml': " \o e.msg
      [] e.variant = "Validation" -> "Invalid configuration: " \o e.msg

ApiConfigs ==
    {[provider |-> "Anthropic", api_key_env |-> "API_KEY", api_url |-> None],
     [provider |-> "OpenAiCompatible", api_key_env |-> "API_KEY",
      api_url |-> Some("https://llm.example/v1")],
     [provider |-> "OpenAiCompatible", api_key_env |-> "API_KEY", api_url |-> None]}

ModelPresets ==
    {[id |-> i, default |-> d, api |-> a, translation |-> t] :
        i \in {"opus", "sonnet"}, d \in BOOLEAN, a \in ApiConfigs,
        t \in {None} \cup {Some([api |-> ta]) : ta \in ApiConfigs}}

ConfigFiles ==
    {Ok([safeguard |-> sg, models |-> ms]) :
        sg \in {None} \cup {Some([enabled |-> e, api |-> a]) :
                               e \in BOOLEAN, a \in ApiConfigs},
        ms \in UNION {[1..n -> ModelPresets] : n \in 0..MaxPresets}}
    \cup {Err(f) : f \in LoadFailures}

(* ApiConfig::validate                                                     *)
ApiConfig_validate(api, section) ==
    IF api.provider = "OpenAiCompatible" /\ ~IsSome(api.api_url)
    THEN Err(Validation("[" \o section \o "] api_url is required for 'openai' provider"))
    ELSE Ok("()")

(* ModelPreset::validate                                                   *)
ModelPreset_validate(preset, section) ==
    LET own == ApiConfig_validate(preset.api, section \o ".api")
    IN  IF ~IsOk(own) THEN own
        ELSE IF IsSome(preset.translation)
        THEN ApiConfig_validate(preset.translation.v.api,
                                section \o ".translation.api")
        ELSE Ok("()")

(* AiConfig::validate: the checks in the order the code makes them, each   *)
(* returning the first failure.                                            *)
validate(c) ==
    LET n == Len(c.models)
        safeguard == IF IsSome(c.safeguard) /\ c.safeguard.v.enabled
                     THEN ApiConfig_validate(c.safeguard.v.api, "safeguard.api")
                     ELSE Ok("()")
        preset(i) == ModelPreset_validate(c.models[i],
                                          "models[" \o ToString(i - 1) \o "]")
        failing == {i \in 1..n : ~IsOk(preset(i))}
        default_count == Cardinality({i \in 1..n : c.models[i].default})
    IN  IF n = 0
        THEN Err(Validation("At least one model preset is required"))
        ELSE IF ~IsOk(safeguard) THEN safeguard
        ELSE IF failing # {}
        THEN preset(CHOOSE i \in failing : \A k \in failing : i <= k)
        ELSE IF default_count > 1
        THEN Err(Validation("Only one model can be marked as default"))
        ELSE Ok("()")

default_model_First(c) == c.models[1]

(* AiConfig::default_model: find(|m| m.default), else first().unwrap(),    *)
(* which panics on an empty list.                                          *)
default_model(c) ==
    LET marked == {i \in 1..Len(c.models) : c.models[i].default}
    IN  IF marked # {}
        THEN c.models[CHOOSE i \in marked : \A k \in marked : i <= k]
        ELSE IF Len(c.models) > 0 THEN c.models[1]
        ELSE [panic |-> "called Option::unwrap() on a None value"]

(* AiConfig::get_model: find(|m| m.id == id), the first preset in          *)
(* declaration order with that id.                                         *)
AiConfig_get_model(c, id) ==
    LET found == {i \in 1..Len(c.models) : c.models[i].id = id}
    IN  IF found # {}
        THEN Some(c.models[CHOOSE i \in found : \A k \in found : i <= k])
        ELSE None

load_config_Unvalidated(f) == f

(* load_config: read the file, parse it, validate the result.              *)
load_config(f) ==
    IF ~IsOk(f) THEN f
    ELSE IF ~IsOk(validate(f.v)) THEN validate(f.v)
    ELSE Ok(f.v)

(* get_config: CONFIG.get_or_try_init(load_config). A filled cell is       *)
(* returned as it is; an empty one is filled only when load_config         *)
(* succeeds, so a failed load is tried again by the next call.             *)
get_config(c, f) ==
    IF IsSome(c) THEN [cell |-> c, result |-> Ok(c.v)]
    ELSE LET loaded == load_config(f)
         IN  [cell |-> IF IsOk(loaded) THEN Some(loaded.v) ELSE None,
              result |-> loaded]

api_key_Unchecked(api, environ) == Ok("")

(* ApiConfig::api_key: std::env::var(&self.api_key_env)                    *)
api_key(api, environ) ==
    IF api.api_key_env \in environ THEN Ok("secret")
    ELSE Err(Validation("Environment variable '" \o api.api_key_env \o "' not set"))

(* The preset registry of the running server, and get_model on it.         *)
models ==
    <<[id |-> "opus", default |-> TRUE,
       api |-> [provider |-> "Anthropic", api_key_env |-> "API_KEY",
                api_url |-> None],
       translation |-> None]>>

ServingConfig == [safeguard |-> None, models |-> models]

get_model(id) == AiConfig_get_model(ServingConfig, id)

----------------------------------------------------------------------------
(* ai/error.rs: AnalysisError and its Display form.                        *)

Config(e) == [kind |-> "Config", variant |-> e.variant, msg |-> e.msg]
ConfigError(m) == Config(Validation(m))
RequestError(m) == [kind |-> "Request", msg |-> m]
ApiError(status, body) == [kind |-> "ApiError", status |-> status, body |-> body]
ParseResponse(m) == [kind |-> "ParseResponse", msg |-> m]
EmptyResponse == [kind |-> "EmptyResponse"]
UnsafeInput == [kind |-> "UnsafeInput"]
InvalidModel(id) == [kind |-> "InvalidModel", id |-> id]

UnsafeInputMessage ==
    "Your input was flagged as potentially unsafe. Please provide only personal context information."

Display(e) ==
    CASE e.kind = "Config" -> "Configuration error: " \o ConfigErrorDisplay(e)
      [] e.kind = "Request" -> "API request failed: " \o e.msg
      [] e.kind = "ApiError" -> "API error (" \o ToString(e.status) \o "): " \o e.body
      [] e.kind = "ParseResponse" -> "Failed to parse API response: " \o e.msg
      [] e.kind = "EmptyResponse" -> "Empty response from API"
      [] e.kind = "UnsafeInput" -> UnsafeInputMessage
      [] e.kind = "InvalidModel" -> "Invalid model: " \o e.id

----------------------------------------------------------------------------
(* ai/prompts.rs: a prompt is the record of the parts the format string    *)
(* embeds.                                                                 *)

UnwrapOr(o, d) == IF IsSome(o) THEN o.v ELSE d

analysis_prompt(lang, profile, user_context) ==
    [kind |-> "analysis",
     lang |-> lang,
     scores |-> profile,
     context |-> Trim(UnwrapOr(user_context, <<>>))]

translation_prompt(text, source_lang, target_lang) ==
    [kind |-> "translation",
     source_name |-> Name(source_lang),
     target_name |-> CASE target_lang = "ru" -> "Russian"
                       [] target_lang = "en" -> "English"
                       [] OTHER -> "English",
     form_instruction |-> CASE target_lang = "ru" -> "ty"
                            [] OTHER -> "you",
     text |-> text]

safeguard_system_prompt == "prompt injection detector: respond with only SAFE or UNSAFE"

(* The user message of the safeguard call is the context itself.           *)
RawText(s) == [kind |-> "raw", text |-> s]

----------------------------------------------------------------------------
(* ai/provider: one provider call. A call function yields the request it   *)
(* put on the network (None when it returned before sending) and its       *)
(* result. q holds the call's arguments: model, max_tokens, system, user,  *)
(* thinking. The network answers with a reply: the send fails, or a        *)
(* response arrives with its status, the body the server wrote, whether    *)
(* the client manages to read that body, and what the body parses to.      *)

is_success_Redirects(status) == status \in 200..399

(* StatusCode::is_success                                                  *)
is_success(status) == status \in 200..299

(* response.text().await.unwrap_or_default()                               *)
ErrorBody(reply) == IF reply.readable THEN reply.body ELSE ""

(* EffortLevel::as_str                                                     *)
as_str(effort) ==
    CASE effort = "Max" -> "max"
      [] effort = "High" -> "high"
      [] effort = "Medium" -> "medium"
      [] effort = "Low" -> "low"

build_thinking_params_EffortAlways(thinking) ==
    IF ~IsSome(thinking) THEN <<None, None>>
    ELSE IF thinking.v.type = "adaptive"
    THEN <<Some([type |-> "adaptive"]), Some([effort |-> as_str(thinking.v.effort)])>>
    ELSE <<Some([type |-> "enabled", budget_tokens |-> thinking.v.budget_tokens]), None>>

(* anthropic.rs: build_thinking_params, the pair (thinking, output_config). *)
build_thinking_params(thinking) ==
    IF ~IsSome(thinking) THEN <<None, None>>
    ELSE IF thinking.v.type = "adaptive"
    THEN <<Some([type |-> "adaptive"]),
           IF thinking.v.effort = "High" THEN None
           ELSE Some([effort |-> as_str(thinking.v.effort)])>>
    ELSE <<Some([type |-> "enabled", budget_tokens |-> thinking.v.budget_tokens]), None>>

(* anthropic.rs: Request as serde writes it: a JSON object whose keys are  *)
(* the fields present; skip_serializing_if drops a None field altogether.  *)
Request(model, max_tokens, system, user, thinking, output_config) ==
    LET present == {"model", "max_tokens", "messages"}
                   \cup (IF IsSome(system) THEN {"system"} ELSE {})
                   \cup (IF IsSome(thinking) THEN {"thinking"} ELSE {})
                   \cup (IF IsSome(output_config) THEN {"output_config"} ELSE {})
    IN  [k \in present |->
            CASE k = "model" -> model
              [] k = "max_tokens" -> max_tokens
              [] k = "messages" -> <<[role |-> "user", content |-> user]>>
              [] k = "system" -> system.v
              [] k = "thinking" -> thinking.v
              [] k = "output_config" -> output_config.v]

RECURSIVE Join(_)
Join(texts) == IF texts = <<>> THEN "" ELSE Head(texts) \o Join(Tail(texts))

(* anthropic.rs: extract_text                                              *)
extract_text(content) ==
    LET kept == SelectSeq(content, LAMBDA b : b.type = "text" /\ IsSome(b.text))
        texts == [i \in 1..Len(kept) |-> kept[i].text.v]
    IN  IF texts = <<>> THEN Err(EmptyResponse) ELSE Ok(Join(texts))

(* anthropic.rs: call                                                      *)
anthropic_call(api, environ, q, reply) ==
    LET key == api_key(api, environ)
        params == build_thinking_params(q.thinking)
        request == Request(q.model, q.max_tokens, q.system, q.user,
                           params[1], params[2])
    IN  IF ~IsOk(key) THEN [request |-> None, result |-> Err(Config(key.e))]
        ELSE [request |-> Some(request),
              result |->
                IF reply.kind = "failed" THEN Err(RequestError(reply.msg))
                ELSE IF ~is_success(reply.status)
                THEN Err(ApiError(reply.status, ErrorBody(reply)))
                ELSE IF ~reply.readable \/ ~IsSome(reply.json)
                        \/ "content" \notin DOMAIN reply.json.v
                THEN Err(ParseResponse("error decoding response body"))
                ELSE extract_text(reply.json.v.content)]

(* openai.rs: call (provider.rs call_openai_compatible has the same body). *)
openai_call(api, environ, q, reply) ==
    LET key == api_key(api, environ)
        messages == (IF IsSome(q.system)
                     THEN <<[role |-> "system", content |-> q.system.v]>>
                     ELSE <<>>)
                    \o <<[role |-> "user", content |-> q.user]>>
        request == [url |-> api.api_url, model |-> q.model,
                    max_tokens |-> q.max_tokens, messages |-> messages]
    IN  IF ~IsOk(key) THEN [request |-> None, result |-> Err(Config(key.e))]
        ELSE IF ~IsSome(api.api_url)
        THEN [request |-> None,
              result |-> Err(ConfigError(
                  "api_url is required for OpenAI-compatible provider"))]
        ELSE [request |-> Some(request),
              result |->
                IF reply.kind = "failed" THEN Err(RequestError(reply.msg))
                ELSE IF ~is_success(reply.status)
                THEN Err(ApiError(reply.status, ErrorBody(reply)))
                ELSE IF ~reply.readable \/ ~IsSome(reply.json)
                        \/ "choices" \notin DOMAIN reply.json.v
                THEN Err(ParseResponse("error decoding response body"))
                ELSE IF reply.json.v.choices = <<>> THEN Err(EmptyResponse)
                ELSE Ok(reply.json.v.choices[1])]

(* provider.rs: call_anthropic. Its Request has no thinking fields, its    *)
(* ContentBlock is { text: String }, so a block without a text field fails *)
(* the parse, and it returns the first block's text.                       *)
call_anthropic(api, environ, q, reply) ==
    LET key == api_key(api, environ)
        request == Request(q.model, q.max_tokens, q.system, q.user, None, None)
    IN  IF ~IsOk(key) THEN [request |-> None, result |-> Err(Config(key.e))]
        ELSE [request |-> Some(request),
              result |->
                IF reply.kind = "failed" THEN Err(RequestError(reply.msg))
                ELSE IF ~is_success(reply.status)
                THEN Err(ApiError(reply.status, ErrorBody(reply)))
                ELSE IF ~reply.readable \/ ~IsSome(reply.json)
                        \/ "content" \notin DOMAIN reply.json.v
                THEN Err(ParseResponse("error decoding response body"))
                ELSE IF \E i \in 1..Len(reply.json.v.content) :
                            ~IsSome(reply.json.v.content[i].text)
                THEN Err(ParseResponse("missing field text"))
                ELSE IF reply.json.v.content = <<>> THEN Err(EmptyResponse)
                ELSE Ok(reply.json.v.content[1].text.v)]

(* provider.rs: call_model / call_model_with_system: match api.provider    *)
call_model(api, environ, q, reply) ==
    IF api.provider = "Anthropic"
    THEN call_anthropic(api, environ, q, reply)
    ELSE openai_call(api, environ, q, reply)

(* provider/mod.rs: do_call. The exchange itself is llm-relay's; the reply *)
(* is what LlmClient::new and client.complete return.                      *)
do_call(api, environ, q, reply) ==
    LET key == api_key(api, environ)
        options == [model |-> q.model, max_tokens |-> q.max_tokens,
                    timeout |-> API_TIMEOUT, system |-> q.system,
                    thinking |-> q.thinking, user |-> q.user]
    IN  IF ~IsOk(key) THEN [request |-> None, result |-> Err(Config(key.e))]
        ELSE IF api.provider = "OpenAiCompatible" /\ ~IsSome(api.api_url)
        THEN [request |-> None,
              result |-> Err(ConfigError(
                  "api_url is required for OpenAI-compatible provider"))]
        ELSE IF ~reply.built
        THEN [request |-> None, result |-> Err(RequestError(reply.msg))]
        ELSE [request |-> Some(options),
              result |->
                IF IsOk(reply.outcome) THEN Ok(reply.outcome.v)
                ELSE CASE reply.outcome.e.variant = "ApiError" ->
                            Err(ApiError(reply.outcome.e.status, reply.outcome.e.body))
                       [] reply.outcome.e.variant = "EmptyResponse" ->
                            Err(EmptyResponse)
                       [] reply.outcome.e.variant = "ParseResponse" ->
                            Err(ParseResponse(reply.outcome.e.msg))
                       [] OTHER -> Err(RequestError(reply.outcome.e.msg))]

(* The ApiConfig behind an api field of the configuration the pipeline     *)
(* reads.                                                                  *)
api_config(name) ==
    [provider |-> "Anthropic", api_key_env |-> "API_KEY", api_url |-> None]

----------------------------------------------------------------------------
(* jobs.rs: JobStatus; results.rs: AnalysisStatus.                         *)

Pending == [tag |-> "Pending"]
Processing == [tag |-> "Processing"]
Complete(s) == [tag |-> "Complete", v |-> s]
Error(m) == [tag |-> "Error", v |-> m]

IsTerminal(st) == st.tag \in {"Complete", "Error"}

AnalysisStatusPending == [wire |-> "Pending"]
AnalysisStatusComplete(s) == [wire |-> "Complete", v |-> s]
AnalysisStatusError(m) == [wire |-> "Error", v |-> m]

----------------------------------------------------------------------------
(* jobs.rs: the store operations. Each one locks JOB_STORE for its whole   *)
(* body, so each is one atomic step on the map.                            *)

Restrict(f, D) == [i \in D |-> f[i]]

cleanup_old_jobs_MarkExpired(store, t) ==
    [i \in DOMAIN store |->
        IF t - store[i].created_at < MAX_AGE
        THEN store[i]
        ELSE [store[i] EXCEPT !.status = Error("Job expired")]]

cleanup_old_jobs_OnlyTerminal(store, t) ==
    Restrict(store, {i \in DOMAIN store :
        t - store[i].created_at < MAX_AGE \/ ~IsTerminal(store[i].status)})

cleanup_old_jobs_StrictlyOlder(store, t) ==
    Restrict(store, {i \in DOMAIN store : t - store[i].created_at <= MAX_AGE})

cleanup_old_jobs(store, t) ==
    Restrict(store, {i \in DOMAIN store : t - store[i].created_at < MAX_AGE})

create_job_NoSweep(store, job_id, t) ==
    [i \in DOMAIN store \cup {job_id} |->
        IF i = job_id THEN [status |-> Pending, created_at |-> t] ELSE store[i]]

create_job(store, job_id, t) ==
    LET swept == cleanup_old_jobs(store, t)
    IN  [i \in DOMAIN swept \cup {job_id} |->
            IF i = job_id THEN [status |-> Pending, created_at |-> t] ELSE swept[i]]

update_job_status_AllEntries(store, job_id, status) ==
    IF job_id \in DOMAIN store
    THEN [i \in DOMAIN store |-> [store[i] EXCEPT !.status = status]]
    ELSE store

update_job_status_Upsert(store, job_id, status) ==
    [i \in DOMAIN store \cup {job_id} |->
        IF i = job_id
        THEN [status |-> status,
              created_at |-> IF i \in DOMAIN store THEN store[i].created_at ELSE 0]
        ELSE store[i]]

update_job_status(store, job_id, status) ==
    IF job_id \in DOMAIN store
    THEN [store EXCEPT ![job_id].status = status]
    ELSE store

get_job_status(store, job_id) ==
    IF job_id \in DOMAIN store THEN Some(store[job_id].status) ELSE None

remove_job(store, job_id) == Restrict(store, DOMAIN store \ {job_id})

----------------------------------------------------------------------------
(* History kept for the properties: per job, the status values its record  *)
(* took, the statuses the runner passed to update_job_status, the provider *)
(* calls of its pipeline and what each call returned.                      *)

NewLog ==
    [statuses |-> <<>>, updates |-> <<>>, calls |-> <<>>, replies |-> <<>>,
     delivered |-> FALSE, polled |-> FALSE, evicted |-> FALSE]

Observe(lg, store) ==
    [j \in DOMAIN lg |->
        IF /\ j \in DOMAIN store
           /\ \/ lg[j].statuses = <<>>
              \/ lg[j].statuses[Len(lg[j].statuses)] # store[j].status
        THEN [lg[j] EXCEPT !.statuses = Append(@, store[j].status)]
        ELSE lg[j]]

Evict(lg, old, new) ==
    [j \in DOMAIN lg |->
        IF j \in DOMAIN old /\ j \notin DOMAIN new
        THEN [lg[j] EXCEPT !.evicted = TRUE]
        ELSE lg[j]]

Ids == 1..issued

IdleHandler ==
    [pc |-> "idle", job_id |-> 0, seen |-> None, first |-> FALSE, late |-> FALSE]

Awaiting(j) == task[j].pc \in {"safeguard", "generation", "translation"}

TaskDone(j) == task[j].pc = "done"

----------------------------------------------------------------------------
(* main.rs: start-up. main loads .env, then calls get_config and logs what *)
(* it returned: the presets on success, the error on failure. Both arms of *)
(* the match fall through to the code that builds the router and serves.   *)

IdleProbe == [pc |-> "idle"]

Main ==
    /\ proc.pc = "main"
    /\ env' = env \cup dotenv
    /\ LET got == get_config(cell, file)
       IN  /\ cell' = got.cell
           /\ proc' = [pc |-> "serving", loaded |-> Some(got.result)]
    /\ UNCHANGED <<config, now, jobs, issued, task, handler, log, client, db,
                   file, dotenv, probe>>

(* The process as the other specifications find it: started with a valid   *)
(* file and the key variable set.                                          *)
Serving ==
    /\ file = Ok(ServingConfig)
    /\ cell = Some(ServingConfig)
    /\ env = {"API_KEY"}
    /\ dotenv = {}
    /\ proc = [pc |-> "serving", loaded |-> Some(Ok(ServingConfig))]
    /\ probe = IdleProbe

(* The operator adds the key variable to .env; the next dotenvy::dotenv()  *)
(* call puts it into the process environment.                              *)
EditDotenv ==
    /\ dotenv = {}
    /\ dotenv' = {"API_KEY"}
    /\ UNCHANGED <<config, now, jobs, issued, task, handler, log, client, db,
                   file, cell, env, proc, probe>>

----------------------------------------------------------------------------
(* results.rs: start_analysis. dotenvy::dotenv() runs first. The id is     *)
(* fresh (Uuid::new_v4), create_job registers it, tokio::spawn detaches    *)
(* the task and the handler returns Ok(job_id): nothing in its body        *)
(* suspends, and after create_job it touches no shared state, so the whole *)
(* body is one step. The spawned task starts at "spawned" and runs on its  *)
(* own.                                                                    *)

start_analysis(model_id, user_context, lang, result_id) ==
    /\ issued < MaxJobs
    /\ LET job_id == issued + 1
           store == create_job(jobs, job_id, now)
       IN  /\ issued' = job_id
           /\ jobs' = store
           /\ task' = Append(task,
                  [model_id |-> model_id, user_context |-> user_context,
                   lang |-> lang, profile |-> "profile", result_id |-> result_id,
                   pc |-> "spawned", deadline |-> 0,
                   result |-> None])
           /\ log' = Observe(Append(Evict(log, jobs, store), NewLog), store)
    /\ env' = env \cup dotenv

(* A start_analysis request from a caller the model does not follow.       *)
StartAnalysis(model_id, user_context, lang) ==
    /\ start_analysis(model_id, user_context, lang, None)
    /\ UNCHANGED <<config, now, handler, client, db,
                   file, cell, dotenv, proc, probe>>

----------------------------------------------------------------------------
(* results.rs: the spawned task, first statement.                          *)

TaskProcessingSkipped(j) ==
    /\ j \in Ids
    /\ task[j].pc = "spawned"
    /\ task' = [task EXCEPT ![j].pc = "generate_analysis"]
    /\ UNCHANGED <<config, now, jobs, issued, handler, log, client, db,
                   file, cell, env, dotenv, proc, probe>>

TaskProcessing(j) ==
    /\ j \in Ids
    /\ task[j].pc = "spawned"
    /\ LET store == update_job_status(jobs, j, Processing)
       IN  /\ jobs' = store
           /\ log' = Observe([log EXCEPT ![j].updates = Append(@, Processing)], store)
    /\ task' = [task EXCEPT ![j].pc = "generate_analysis"]
    /\ UNCHANGED <<config, now, issued, handler, client, db,
                   file, cell, env, dotenv, proc, probe>>

----------------------------------------------------------------------------
(* ai/pipeline.rs: the decisions of the pipeline, as the code takes them.  *)

SAFE == <<"S", "A", "F", "E">>
UNSAFE == <<"U", "N", "S", "A", "F", "E">>

SafeguardEnteredUntrimmed(user_context) ==
    IsSome(user_context) /\ user_context.v # <<>>

(* generate_analysis: if let Some(context) = user_context                  *)
(*                    && !context.trim().is_empty()                        *)
SafeguardEntered(user_context) ==
    IsSome(user_context) /\ Trim(user_context.v) # <<>>

(* check_safeguard: Some(s) if s.enabled => s, _ => return Ok(())          *)
SafeguardEnabled(cfg) ==
    IsSome(cfg.safeguard) /\ cfg.safeguard.v.enabled

IsUnsafeOnlyExplicit(response) ==
    Contains(ToUppercase(Trim(response)), UNSAFE)

(* check_safeguard: the verdict on the safeguard model's reply.            *)
IsUnsafe(response) ==
    LET response_upper == ToUppercase(Trim(response))
    IN  Contains(response_upper, UNSAFE) \/ ~Contains(response_upper, SAFE)

(* generate_analysis: config.translation.map(|t| t.enabled).unwrap_or(false) *)
use_translation(cfg) ==
    IF IsSome(cfg.translation) THEN cfg.translation.v.enabled ELSE FALSE

(* generate_direct: match interface_language                               *)
prompt_lang(interface_language) ==
    CASE interface_language = "ru" -> "Ru"
      [] interface_language = "zh" -> "Zh"
      [] OTHER -> "En"

ProviderCall(stage, api, model, system, user, max_tokens) ==
    [stage |-> stage, api |-> api, model |-> model, system |-> system,
     user |-> user, max_tokens |-> max_tokens]

(* check_safeguard: call_model_with_system(api, model, system, context, max_tokens) *)
SafeguardCall(cfg, context) ==
    LET safeguard == cfg.safeguard.v
    IN  ProviderCall("safeguard", UnwrapOr(safeguard.api, cfg.api), safeguard.model,
                     Some(safeguard_system_prompt), RawText(context),
                     safeguard.max_tokens)

(* generate_direct / generate_with_translation: the generation call.       *)
GenerationCall(cfg, t) ==
    LET lang == IF use_translation(cfg)
                THEN cfg.translation.v.source_language
                ELSE prompt_lang(t.lang)
    IN  ProviderCall("generation", cfg.api, cfg.analysis.model, None,
                     analysis_prompt(lang, t.profile, t.user_context),
                     cfg.analysis.max_tokens)

NeedsTranslationAlways(cfg, interface_language) == use_translation(cfg)

(* generate_with_translation: whether step 2 runs after step 1 succeeded.  *)
NeedsTranslation(cfg, interface_language) ==
    /\ use_translation(cfg)
    /\ Code(cfg.translation.v.source_language) # interface_language

TranslationCallWithMainPreset(cfg, analysis, interface_language) ==
    ProviderCall("translation", cfg.api, cfg.analysis.model, None,
                 translation_prompt(analysis, cfg.translation.v.source_language,
                                    interface_language),
                 cfg.analysis.max_tokens)

TranslationCall(cfg, analysis, interface_language) ==
    LET translation == cfg.translation.v
    IN  ProviderCall("translation", UnwrapOr(translation.api, cfg.api),
                     translation.model, None,
                     translation_prompt(analysis, translation.source_language,
                                        interface_language),
                     translation.max_tokens)

(* Bookkeeping of a step of task j on the history lg: its next position,   *)
(* the call it starts (if any) with that call's deadline, and the          *)
(* pipeline's result (if any).                                             *)
Replied(j, r) == [log EXCEPT ![j].replies = Append(@, r)]

Suspend(j, pc, call, lg) ==
    /\ task' = [task EXCEPT ![j].pc = pc, ![j].deadline = now + API_TIMEOUT]
    /\ log' = [lg EXCEPT ![j].calls = Append(@, call)]

Continue(j, pc, lg) ==
    /\ task' = [task EXCEPT ![j].pc = pc, ![j].deadline = 0]
    /\ log' = lg

Return(j, result, lg) ==
    /\ task' = [task EXCEPT ![j].pc = "finish", ![j].deadline = 0,
                            ![j].result = Some(result)]
    /\ log' = lg

(* generate_analysis up to its first suspension point: get_config()?, then *)
(* the safeguard gate.                                                     *)
GenerateAnalysis(j) ==
    /\ j \in Ids
    /\ task[j].pc = "generate_analysis"
    /\ LET got == get_config(cell, file)
       IN  /\ cell' = got.cell
           /\ IF ~IsOk(got.result)
              THEN Return(j, Err(Config(got.result.e)), log)
              ELSE IF SafeguardEntered(task[j].user_context) /\ SafeguardEnabled(config)
              THEN Suspend(j, "safeguard",
                           SafeguardCall(config, task[j].user_context.v), log)
              ELSE Continue(j, "generate", log)
    /\ UNCHANGED <<config, now, jobs, issued, handler, client, db,
                   file, env, dotenv, proc, probe>>

SafeguardReturnFailOpen(j, r) ==
    /\ j \in Ids
    /\ task[j].pc = "safeguard"
    /\ IF ~IsOk(r) THEN Return(j, r, Replied(j, r))
       ELSE Continue(j, "generate", Replied(j, r))
    /\ UNCHANGED <<config, now, jobs, issued, handler, client, db,
                   file, cell, env, dotenv, proc, probe>>

SafeguardReturnSkipOnError(j, r) ==
    /\ j \in Ids
    /\ task[j].pc = "safeguard"
    /\ IF IsOk(r) /\ IsUnsafe(r.v) THEN Return(j, Err(UnsafeInput), Replied(j, r))
       ELSE Continue(j, "generate", Replied(j, r))
    /\ UNCHANGED <<config, now, jobs, issued, handler, client, db,
                   file, cell, env, dotenv, proc, probe>>

(* check_safeguard resumes with the provider's outcome r.                  *)
SafeguardReturn(j, r) ==
    /\ j \in Ids
    /\ task[j].pc = "safeguard"
    /\ IF ~IsOk(r) THEN Return(j, r, Replied(j, r))
       ELSE IF IsUnsafe(r.v) THEN Return(j, Err(UnsafeInput), Replied(j, r))
       ELSE Continue(j, "generate", Replied(j, r))
    /\ UNCHANGED <<config, now, jobs, issued, handler, client, db,
                   file, cell, env, dotenv, proc, probe>>

(* generate_direct / generate_with_translation start the generation call.  *)
GenerateStart(j) ==
    /\ j \in Ids
    /\ task[j].pc = "generate"
    /\ Suspend(j, "generation", GenerationCall(config, task[j]), log)
    /\ UNCHANGED <<config, now, jobs, issued, handler, client, db,
                   file, cell, env, dotenv, proc, probe>>

GenerationReturnRetry(j, r) ==
    /\ j \in Ids
    /\ task[j].pc = "generation"
    /\ IF ~IsOk(r)
       THEN Suspend(j, "generation", GenerationCall(config, task[j]), Replied(j, r))
       ELSE IF NeedsTranslation(config, task[j].lang)
       THEN Suspend(j, "translation", TranslationCall(config, r.v, task[j].lang),
                    Replied(j, r))
       ELSE Return(j, r, Replied(j, r))
    /\ UNCHANGED <<config, now, jobs, issued, handler, client, db,
                   file, cell, env, dotenv, proc, probe>>

(* The generation call returns r; step 2 of generate_with_translation.     *)
GenerationReturn(j, r) ==
    /\ j \in Ids
    /\ task[j].pc = "generation"
    /\ IF ~IsOk(r) THEN Return(j, r, Replied(j, r))
       ELSE IF NeedsTranslation(config, task[j].lang)
       THEN Suspend(j, "translation", TranslationCall(config, r.v, task[j].lang),
                    Replied(j, r))
       ELSE Return(j, r, Replied(j, r))
    /\ UNCHANGED <<config, now, jobs, issued, handler, client, db,
                   file, cell, env, dotenv, proc, probe>>

TranslationReturn(j, r) ==
    /\ j \in Ids
    /\ task[j].pc = "translation"
    /\ Return(j, r, Replied(j, r))
    /\ UNCHANGED <<config, now, jobs, issued, handler, client, db,
                   file, cell, env, dotenv, proc, probe>>

(* results.rs: the spawned task records the pipeline's outcome.            *)
FinalStatusGeneric(result) ==
    IF IsOk(result) THEN Complete(result.v) ELSE Error("Analysis failed")

FinalStatus(result) ==
    IF IsOk(result) THEN Complete(result.v) ELSE Error(Display(result.e))

TaskFinishIfStored(j) ==
    /\ j \in Ids
    /\ task[j].pc = "finish"
    /\ j \in DOMAIN jobs
    /\ LET status == FinalStatus(task[j].result.v)
           store == update_job_status(jobs, j, status)
       IN  /\ jobs' = store
           /\ log' = Observe([log EXCEPT ![j].updates = Append(@, status)], store)
    /\ task' = [task EXCEPT ![j].pc = "done"]
    /\ UNCHANGED <<config, now, issued, handler, client, db,
                   file, cell, env, dotenv, proc, probe>>

TaskFinish(j) ==
    /\ j \in Ids
    /\ task[j].pc = "finish"
    /\ LET status == FinalStatus(task[j].result.v)
           store == update_job_status(jobs, j, status)
       IN  /\ jobs' = store
           /\ log' = Observe([log EXCEPT ![j].updates = Append(@, status)], store)
    /\ task' = [task EXCEPT ![j].pc = "done"]
    /\ UNCHANGED <<config, now, issued, handler, client, db,
                   file, cell, env, dotenv, proc, probe>>

----------------------------------------------------------------------------
(* results.rs: get_analysis_status. get_job_status and remove_job are two  *)
(* separate critical sections of the same handler.                         *)

JobNotFound == "Job not found"

StatusResponseProcessingUnknown(seen) ==
    CASE IsSome(seen) /\ seen.v.tag = "Pending" -> AnalysisStatusPending
      [] IsSome(seen) /\ seen.v.tag = "Complete" -> AnalysisStatusComplete(seen.v.v)
      [] IsSome(seen) /\ seen.v.tag = "Error" -> AnalysisStatusError(seen.v.v)
      [] OTHER -> AnalysisStatusError(JobNotFound)

StatusResponseUnknownPending(seen) ==
    CASE ~IsSome(seen) -> AnalysisStatusPending
      [] IsSome(seen) /\ seen.v.tag \in {"Pending", "Processing"} -> AnalysisStatusPending
      [] IsSome(seen) /\ seen.v.tag = "Complete" -> AnalysisStatusComplete(seen.v.v)
      [] IsSome(seen) /\ seen.v.tag = "Error" -> AnalysisStatusError(seen.v.v)

StatusResponse(seen) ==
    CASE ~IsSome(seen) -> AnalysisStatusError(JobNotFound)
      [] IsSome(seen) /\ seen.v.tag \in {"Pending", "Processing"} -> AnalysisStatusPending
      [] IsSome(seen) /\ seen.v.tag = "Complete" -> AnalysisStatusComplete(seen.v.v)
      [] IsSome(seen) /\ seen.v.tag = "Error" -> AnalysisStatusError(seen.v.v)

RemovesJobOnlyComplete(seen) == IsSome(seen) /\ seen.v.tag = "Complete"

RemovesJobAnySeen(seen) == IsSome(seen)

RemovesJob(seen) == IsSome(seen) /\ seen.v.tag \in {"Complete", "Error"}

(* History: the call answers with the job's terminal result.               *)
Delivers(seen) == IsSome(seen) /\ IsTerminal(seen.v)

get_analysis_status_read(p, job_id) ==
    /\ handler[p].pc = "idle"
    /\ job_id \in 0..issued
    /\ LET known == job_id \in Ids
       IN  /\ handler' = [handler EXCEPT ![p] =
                  [pc |-> "matched", job_id |-> job_id,
                   seen |-> get_job_status(jobs, job_id),
                   first |-> known /\ TaskDone(job_id) /\ ~log[job_id].polled,
                   late |-> known /\ log[job_id].delivered]]
           /\ log' = IF known /\ TaskDone(job_id)
                     THEN [log EXCEPT ![job_id].polled = TRUE]
                     ELSE log

get_analysis_status_respond(p) ==
    /\ handler[p].pc = "matched"
    /\ LET h == handler[p]
       IN  /\ jobs' = IF RemovesJob(h.seen) THEN remove_job(jobs, h.job_id) ELSE jobs
           /\ handler' = [handler EXCEPT ![p] = IdleHandler]
           /\ log' = IF Delivers(h.seen)
                     THEN [log EXCEPT ![h.job_id].delivered = TRUE]
                     ELSE log

PollReadBehindPipelines(p, job_id) ==
    /\ \A j \in Ids : ~Awaiting(j)
    /\ get_analysis_status_read(p, job_id)
    /\ UNCHANGED <<config, now, jobs, issued, task, client, db,
                   file, cell, env, dotenv, proc, probe>>

(* A get_analysis_status request from a caller the model does not follow.  *)
PollRead(p, job_id) ==
    /\ get_analysis_status_read(p, job_id)
    /\ UNCHANGED <<config, now, jobs, issued, task, client, db,
                   file, cell, env, dotenv, proc, probe>>

PollRespond(p) ==
    /\ get_analysis_status_respond(p)
    /\ UNCHANGED <<config, now, issued, task, client, db,
                   file, cell, env, dotenv, proc, probe>>

----------------------------------------------------------------------------
(* Time. A provider call returns within API_TIMEOUT of its start (the      *)
(* client's timeout turns a late reply into a Request failure), and steps  *)
(* that do not wait for the network take no time at this resolution.       *)

Tick(d) ==
    /\ now + d <= MaxTime
    /\ \A j \in Ids :
          \/ TaskDone(j)
          \/ Awaiting(j) /\ now + d <= task[j].deadline
    /\ \A p \in DOMAIN handler : handler[p].pc = "idle"
    /\ now' = now + d
    /\ UNCHANGED <<config, jobs, issued, task, handler, log, client, db,
                   file, cell, env, dotenv, proc, probe>>

----------------------------------------------------------------------------
(* The saved results (db.rs) as the orchestrator uses them: the analysis   *)
(* stored against a result id, and the update calls made (history).        *)

ResultIds == {"r1"}

EmptyDb == [ai_analysis |-> [r \in ResultIds |-> None], calls |-> <<>>]

(* db::update_ai_analysis: stores the text against the id, or fails and    *)
(* stores nothing.                                                         *)
update_ai_analysis(d, id, analysis, ok) ==
    IF ok THEN [d EXCEPT !.ai_analysis[id] = Some(analysis)] ELSE d

(* results.rs: the update_saved_analysis server function, called by `by`.  *)
update_saved_analysis(d, by, id, analysis, ok) ==
    [update_ai_analysis(d, id, analysis, ok) EXCEPT
        !.calls = Append(@, [by |-> by, id |-> id, analysis |-> analysis, ok |-> ok])]

----------------------------------------------------------------------------
(* results.rs: ResultsPage request_ai, the browser side (wasm32 build).    *)
(* It calls start_analysis, then polls get_analysis_status in a loop. A    *)
(* server function call can fail in transport: the request is lost before  *)
(* the server runs it, or the response is lost after the server ran it.    *)

IdleClient ==
    [pc |-> "idle", job_id |-> 0, result_id |-> None, poll_count |-> 0,
     slot |-> 0, polls |-> 0,
     ai_description |-> None, ai_error |-> None, ai_loading |-> FALSE]

TransportError == "error running server function"

PollTimeoutMessage == "Analysis timed out. Please try again."

(* let context_opt = if context.trim().is_empty() { None } else { Some(context) } *)
context_opt(context) == IF Trim(context) = <<>> THEN None ELSE Some(context)

IncrementPollCountStuck(poll_count) == poll_count

(* poll_count += 1                                                         *)
IncrementPollCount(poll_count) == poll_count + 1

(* if poll_count >= MAX_POLL_ATTEMPTS                                      *)
GivesUp(poll_count) == poll_count >= MAX_POLL_ATTEMPTS

ClientFailed(message) ==
    [client EXCEPT !.pc = "stopped", !.ai_error = Some(message), !.ai_loading = FALSE]

(* request_ai up to the answer of start_analysis.                          *)
ClientRequestAi(context, result_id, lost) ==
    /\ client.pc = "idle"
    /\ LET loading == [client EXCEPT !.ai_loading = TRUE, !.ai_error = None,
                                     !.result_id = result_id]
       IN  IF lost = "request"
           THEN /\ client' = [loading EXCEPT !.pc = "stopped",
                                             !.ai_error = Some(TransportError),
                                             !.ai_loading = FALSE]
                /\ UNCHANGED <<jobs, issued, task, log, env>>
           ELSE /\ start_analysis("opus", context_opt(context), "ru", result_id)
                /\ client' = IF lost = "response"
                             THEN [loading EXCEPT !.pc = "stopped",
                                                  !.ai_error = Some(TransportError),
                                                  !.ai_loading = FALSE]
                             ELSE [loading EXCEPT !.pc = "sleep", !.job_id = issued + 1]
    /\ UNCHANGED <<config, now, handler, db,
                   file, cell, dotenv, proc, probe>>

(* One turn of the loop up to the call: the timer fires, the count goes    *)
(* up, and the loop gives up once the count reaches the limit.             *)
ClientSleep ==
    /\ client.pc = "sleep"
    /\ LET poll_count == IncrementPollCount(client.poll_count)
       IN  client' = IF GivesUp(poll_count)
                     THEN [ClientFailed(PollTimeoutMessage) EXCEPT !.poll_count = poll_count]
                     ELSE [client EXCEPT !.pc = "poll", !.poll_count = poll_count]
    /\ UNCHANGED <<config, now, jobs, issued, task, handler, log, db,
                   file, cell, env, dotenv, proc, probe>>

(* The loop calls get_analysis_status; handler slot p serves the call.     *)
ClientPoll(p, lost) ==
    /\ client.pc = "poll"
    /\ IF lost
       THEN /\ client' = ClientFailed(TransportError)
            /\ UNCHANGED <<handler, log>>
       ELSE /\ get_analysis_status_read(p, client.job_id)
            /\ client' = [client EXCEPT !.pc = "calling", !.slot = p, !.polls = @ + 1]
    /\ UNCHANGED <<config, now, jobs, issued, task, db,
                   file, cell, env, dotenv, proc, probe>>

(* The call returns and the loop matches on the answer.                    *)
ClientReceive(lost) ==
    /\ client.pc = "calling"
    /\ get_analysis_status_respond(client.slot)
    /\ LET response == StatusResponse(handler[client.slot].seen)
       IN  client' =
             IF lost THEN ClientFailed(TransportError)
             ELSE CASE response.wire = "Complete" ->
                         [client EXCEPT !.ai_description = Some(response.v),
                                        !.ai_loading = FALSE,
                                        !.pc = IF IsSome(client.result_id)
                                               THEN "persist" ELSE "stopped"]
                    [] response.wire = "Error" -> ClientFailed(response.v)
                    [] response.wire = "Pending" -> [client EXCEPT !.pc = "sleep"]
    /\ UNCHANGED <<config, now, issued, task, db,
                   file, cell, env, dotenv, proc, probe>>

(* let _ = update_saved_analysis(rid, description).await; break            *)
ClientPersist(ok) ==
    /\ client.pc = "persist"
    /\ db' = update_saved_analysis(db, "client", client.result_id.v,
                                   client.ai_description.v, ok)
    /\ client' = [client EXCEPT !.pc = "stopped"]
    /\ UNCHANGED <<config, now, jobs, issued, task, handler, log,
                   file, cell, env, dotenv, proc, probe>>

----------------------------------------------------------------------------
(* What the environment may supply.                                        *)

Handlers == 1..MaxHandlers

SafeguardReplies ==
    { SAFE, UNSAFE,
      <<"s", "a", "f", "e">>,
      <<" ", "S", "a", "f", "e", "\n">>,
      <<"u", "n", "s", "a", "f", "e">>,
      <<"M", "A", "Y", "B", "E">>,
      <<>>,
      <<"S", "A", "F">>,
      <<"N", "O", "T", " ", "S", "A", "F", "E">>,
      <<"S", "A", "F", "E", ",", " ", "n", "o", "t", " ", "U", "N", "S", "A", "F", "E">>,
      <<"U", "N", " ", "S", "A", "F", "E">> }

UserContexts ==
    { None, Some(<<>>), Some(<<" ">>), Some(<<"\t", " ", "\n">>),
      Some(<<"h", "i">>), Some(<<" ", "h", "i", " ">>) }

Languages == {"en", "ru", "zh"}

RequestedModels == {"opus", "unknown"}

TimedOut == RequestError("operation timed out")

ProviderErrors ==
    { TimedOut, ApiError(500, "overloaded"), ParseResponse("expected value"),
      EmptyResponse, ConfigError("Environment variable 'API_KEY' not set") }

Outcomes(texts, errors) == {Ok(t) : t \in texts} \cup {Err(e) : e \in errors}

----------------------------------------------------------------------------
(* The store protocol: several jobs, pollers and the clock, under one      *)
(* configuration with both optional stages active.                         *)

FullConfig ==
    AiConfig(Some([enabled |-> TRUE, model |-> "safeguard-model",
                   max_tokens |-> 1024, api |-> None]),
             Some([enabled |-> TRUE, source_language |-> "En",
                   model |-> "translation-model", max_tokens |-> 4096,
                   api |-> None]))

Init ==
    /\ config = FullConfig
    /\ now = 0
    /\ jobs = <<>>
    /\ issued = 0
    /\ task = <<>>
    /\ handler = [p \in Handlers |-> IdleHandler]
    /\ log = <<>>
    /\ client = IdleClient
    /\ db = EmptyDb
    /\ Serving

Next ==
    \/ \E c \in {None, Some(<<"h", "i">>)} : StartAnalysis("opus", c, "ru")
    \/ \E j \in 1..MaxJobs : TaskProcessing(j)
    \/ \E j \in 1..MaxJobs : GenerateAnalysis(j)
    \/ \E j \in 1..MaxJobs, r \in Outcomes({SAFE, UNSAFE}, {TimedOut}) :
          SafeguardReturn(j, r)
    \/ \E j \in 1..MaxJobs : GenerateStart(j)
    \/ \E j \in 1..MaxJobs, r \in Outcomes({"T1"}, {TimedOut}) :
          GenerationReturn(j, r)
    \/ \E j \in 1..MaxJobs, r \in Outcomes({"R1", "R2"}, {TimedOut}) :
          TranslationReturn(j, r)
    \/ \E j \in 1..MaxJobs : TaskFinish(j)
    \/ \E p \in Handlers, id \in 0..MaxJobs : PollRead(p, id)
    \/ \E p \in Handlers : PollRespond(p)
    \/ Tick(TickSecs)

Spec == Init /\ [][Next]_vars

----------------------------------------------------------------------------
(* The pipeline of one job under every configuration, request and provider *)
(* outcome.                                                                *)

PipeInit ==
    /\ config \in AllConfigs
    /\ now = 0
    /\ jobs = <<>>
    /\ issued = 0
    /\ task = <<>>
    /\ handler = [p \in Handlers |-> IdleHandler]
    /\ log = <<>>
    /\ client = IdleClient
    /\ db = EmptyDb
    /\ Serving

PipeNext ==
    \/ \E m \in RequestedModels, c \in UserContexts, l \in Languages :
          issued = 0 /\ StartAnalysis(m, c, l)
    \/ TaskProcessing(1)
    \/ GenerateAnalysis(1)
    \/ \E r \in Outcomes(SafeguardReplies, ProviderErrors) : SafeguardReturn(1, r)
    \/ GenerateStart(1)
    \/ \E r \in Outcomes({"T1", "T2"}, ProviderErrors) : GenerationReturn(1, r)
    \/ \E r \in Outcomes({"R1", "T1"}, ProviderErrors) : TranslationReturn(1, r)
    \/ TaskFinish(1)

PipeSpec == PipeInit /\ [][PipeNext]_vars

----------------------------------------------------------------------------
(* The store protocol without any assumption on timing: the runtime gives  *)
(* no bound on when a spawned task or a handler is resumed, and the clock  *)
(* advances regardless. One configuration, safeguard on, no translation.   *)

Elapse(d) ==
    /\ now + d <= MaxTime
    /\ now' = now + d
    /\ UNCHANGED <<config, jobs, issued, task, handler, log, client, db,
                   file, cell, env, dotenv, proc, probe>>

AsyncConfig ==
    AiConfig(Some([enabled |-> TRUE, model |-> "safeguard-model",
                   max_tokens |-> 1024, api |-> None]),
             None)

AsyncInit ==
    /\ config = AsyncConfig
    /\ now = 0
    /\ jobs = <<>>
    /\ issued = 0
    /\ task = <<>>
    /\ handler = [p \in Handlers |-> IdleHandler]
    /\ log = <<>>
    /\ client = IdleClient
    /\ db = EmptyDb
    /\ Serving

AsyncNext ==
    \/ \E c \in {None, Some(<<"h", "i">>)} : StartAnalysis("opus", c, "en")
    \/ \E j \in 1..MaxJobs : TaskProcessing(j)
    \/ \E j \in 1..MaxJobs : GenerateAnalysis(j)
    \/ \E j \in 1..MaxJobs, r \in Outcomes({SAFE}, {TimedOut}) : SafeguardReturn(j, r)
    \/ \E j \in 1..MaxJobs : GenerateStart(j)
    \/ \E j \in 1..MaxJobs, r \in Outcomes({"T1"}, {TimedOut}) : GenerationReturn(j, r)
    \/ \E j \in 1..MaxJobs : TaskFinish(j)
    \/ \E id \in 0..MaxJobs : PollRead(1, id)
    \/ PollRespond(1)
    \/ Elapse(TickSecs)

AsyncSpec == AsyncInit /\ [][AsyncNext]_vars

(* The steps of the spawned task of job j. The runtime resumes a task that *)
(* can run, and every provider call returns: with a reply, or with the     *)
(* Request failure of its timeout.                                         *)
RunnerStep(j) ==
    \/ TaskProcessing(j)
    \/ GenerateAnalysis(j)
    \/ \E r \in Outcomes({SAFE}, {TimedOut}) : SafeguardReturn(j, r)
    \/ GenerateStart(j)
    \/ \E r \in Outcomes({"T1"}, {TimedOut}) : GenerationReturn(j, r)
    \/ TaskFinish(j)

AsyncFair == AsyncSpec /\ \A j \in 1..MaxJobs : WF_vars(RunnerStep(j))

(* The same steps when only the server functions are sure to be resumed:   *)
(* a provider call may stay unanswered for as long as it likes.            *)
StallFair == AsyncSpec /\ WF_vars(PollRespond(1))

----------------------------------------------------------------------------
(* One results page driving one job, next to a second caller of            *)
(* get_analysis_status; no safeguard, no translation.                      *)

ClientContexts == { <<>>, <<" ">>, <<"h", "i">> }

ClientInit ==
    /\ config = AiConfig(None, None)
    /\ now = 0
    /\ jobs = <<>>
    /\ issued = 0
    /\ task = <<>>
    /\ handler = [p \in Handlers |-> IdleHandler]
    /\ log = <<>>
    /\ client = IdleClient
    /\ db = EmptyDb
    /\ Serving

ClientNext ==
    \/ \E c \in ClientContexts, rid \in {None} \cup {Some(r) : r \in ResultIds},
          lost \in {"no", "request", "response"} : ClientRequestAi(c, rid, lost)
    \/ ClientSleep
    \/ \E lost \in BOOLEAN : ClientPoll(1, lost)
    \/ \E lost \in BOOLEAN : ClientReceive(lost)
    \/ \E ok \in BOOLEAN : ClientPersist(ok)
    \/ TaskProcessing(1)
    \/ GenerateAnalysis(1)
    \/ GenerateStart(1)
    \/ \E r \in Outcomes({"T1"}, {TimedOut}) : GenerationReturn(1, r)
    \/ TaskFinish(1)
    \/ \E id \in 0..1 : PollRead(2, id)
    \/ PollRespond(2)

ClientSpec == ClientInit /\ [][ClientNext]_vars

(* The browser resumes the loop when its timer fires or its call returns,  *)
(* and every server function call returns an answer or a transport error.  *)
ClientFair ==
    /\ ClientSpec
    /\ WF_vars(ClientSleep)
    /\ WF_vars(\E lost \in BOOLEAN : ClientPoll(1, lost))
    /\ WF_vars(\E lost \in BOOLEAN : ClientReceive(lost))
    /\ WF_vars(\E ok \in BOOLEAN : ClientPersist(ok))

----------------------------------------------------------------------------
(* The configuration module on every configuration file up to MaxPresets   *)
(* presets: main loads the file, then default_model and get_model are      *)
(* called on the configuration get_config handed out.                      *)

Probed(fn, arg, out) == [pc |-> "done", fn |-> fn, arg |-> arg, out |-> out]

DefaultModel ==
    /\ IsSome(cell)
    /\ probe' = Probed("default_model", None, default_model(cell.v))
    /\ UNCHANGED <<config, now, jobs, issued, task, handler, log, client, db,
                   file, cell, env, dotenv, proc>>

GetModel(id) ==
    /\ IsSome(cell)
    /\ probe' = Probed("get_model", Some(id), AiConfig_get_model(cell.v, id))
    /\ UNCHANGED <<config, now, jobs, issued, task, handler, log, client, db,
                   file, cell, env, dotenv, proc>>

ConfigInit ==
    /\ config = AiConfig(None, None)
    /\ now = 0
    /\ jobs = <<>>
    /\ issued = 0
    /\ task = <<>>
    /\ handler = [p \in Handlers |-> IdleHandler]
    /\ log = <<>>
    /\ client = IdleClient
    /\ db = EmptyDb
    /\ file \in ConfigFiles
    /\ cell = None
    /\ env = {}
    /\ dotenv = {}
    /\ proc = [pc |-> "main", loaded |-> None]
    /\ probe = IdleProbe

ConfigNext ==
    \/ Main
    \/ DefaultModel
    \/ \E id \in {"opus", "sonnet", "haiku"} : GetModel(id)

ConfigSpec == ConfigInit /\ [][ConfigNext]_vars

----------------------------------------------------------------------------
(* The process from its start: a file that loads or does not, the key      *)
(* variable set or not, and jobs served one after the other, each provider *)
(* call computed by call_model from the environment and the network's      *)
(* reply.                                                                  *)

Text(t) == [type |-> "text", text |-> Some(t)]

HttpResponse(status, body, readable, json) ==
    [kind |-> "response", status |-> status, body |-> body,
     readable |-> readable, json |-> json]

SendFailed == [kind |-> "failed", msg |-> "error sending request"]

BootReplies ==
    { SendFailed,
      HttpResponse(200, "{json}", TRUE, Some([content |-> <<Text("A")>>])),
      HttpResponse(500, "overloaded", TRUE, None) }

(* The arguments of the provider call the pipeline of job j is waiting on. *)
Query(j) ==
    LET call == log[j].calls[Len(log[j].calls)]
    IN  [model |-> call.model, max_tokens |-> call.max_tokens,
         system |-> call.system, user |-> call.user, thinking |-> None]

BootInit ==
    /\ config = AiConfig(None, None)
    /\ now = 0
    /\ jobs = <<>>
    /\ issued = 0
    /\ task = <<>>
    /\ handler = [p \in Handlers |-> IdleHandler]
    /\ log = <<>>
    /\ client = IdleClient
    /\ db = EmptyDb
    /\ file \in {Ok(ServingConfig), Ok([safeguard |-> None, models |-> <<>>])}
                \cup {Err(f) : f \in LoadFailures}
    /\ cell = None
    /\ env \in {{}, {"API_KEY"}}
    /\ dotenv = {}
    /\ proc = [pc |-> "main", loaded |-> None]
    /\ probe = IdleProbe

BootNext ==
    \/ Main
    \/ EditDotenv
    \/ /\ proc.pc = "serving"
       /\ \A j \in Ids : TaskDone(j)
       /\ StartAnalysis("opus", None, "en")
    \/ \E j \in 1..MaxJobs : TaskProcessing(j)
    \/ \E j \in 1..MaxJobs : GenerateAnalysis(j)
    \/ \E j \in 1..MaxJobs : GenerateStart(j)
    \/ \E j \in 1..MaxJobs, reply \in BootReplies :
          /\ j \in Ids
          /\ task[j].pc = "generation"
          /\ GenerationReturn(j, call_model(api_config(config.api), env,
                                            Query(j), reply).result)
    \/ \E j \in 1..MaxJobs : TaskFinish(j)
    \/ \E id \in 0..MaxJobs : proc.pc = "serving" /\ PollRead(1, id)
    \/ PollRespond(1)

BootSpec == BootInit /\ [][BootNext]_vars

----------------------------------------------------------------------------
(* The provider functions on every API block, thinking configuration and   *)
(* reply: each function is applied once to the arguments drawn at the      *)
(* start.                                                                  *)

ThinkingConfigs ==
    {[type |-> "adaptive", effort |-> e] : e \in {"Max", "High", "Medium", "Low"}}
    \cup {[type |-> "enabled", budget_tokens |-> b] : b \in {0, 1024}}

ContentBlocks == {Text("A"), Text("B"), [type |-> "thinking", text |-> None]}

Payloads ==
    {[content |-> c] : c \in UNION {[1..n -> ContentBlocks] : n \in 0..MaxBlocks}}
    \cup {[choices |-> c] : c \in UNION {[1..n -> {"A", "B"}] : n \in 0..2}}

Statuses == {200, 204, 302, 429, 500}

HttpReplies ==
    {SendFailed}
    \cup {HttpResponse(st, "overloaded", r, None) : st \in Statuses, r \in BOOLEAN}
    \cup {HttpResponse(st, "{json}", TRUE, Some(pl)) : st \in Statuses, pl \in Payloads}

RelayReplies ==
    {[kind |-> "relay", built |-> FALSE, msg |-> "builder error"]}
    \cup {[kind |-> "relay", built |-> TRUE, outcome |-> o] :
            o \in {Ok("A"),
                   Err([variant |-> "ApiError", status |-> 429, body |-> "overloaded"]),
                   Err([variant |-> "EmptyResponse"]),
                   Err([variant |-> "ParseResponse", msg |-> "expected value"]),
                   Err([variant |-> "Timeout", msg |-> "operation timed out"])}}

Called(fn, out) ==
    [pc |-> "done", fn |-> fn, api |-> probe.api, q |-> probe.q,
     reply |-> probe.reply, request |-> out.request, result |-> out.result]

AnthropicCall ==
    /\ probe.pc = "idle"
    /\ probe.api.provider = "Anthropic"
    /\ probe.reply.kind # "relay"
    /\ probe' = Called("anthropic", anthropic_call(probe.api, env, probe.q, probe.reply))
    /\ UNCHANGED <<config, now, jobs, issued, task, handler, log, client, db,
                   file, cell, env, dotenv, proc>>

OpenAiCall ==
    /\ probe.pc = "idle"
    /\ probe.api.provider = "OpenAiCompatible"
    /\ probe.reply.kind # "relay"
    /\ probe' = Called("openai", openai_call(probe.api, env, probe.q, probe.reply))
    /\ UNCHANGED <<config, now, jobs, issued, task, handler, log, client, db,
                   file, cell, env, dotenv, proc>>

CallModel ==
    /\ probe.pc = "idle"
    /\ probe.reply.kind # "relay"
    /\ probe' = Called("call_model", call_model(probe.api, env, probe.q, probe.reply))
    /\ UNCHANGED <<config, now, jobs, issued, task, handler, log, client, db,
                   file, cell, env, dotenv, proc>>

DoCall ==
    /\ probe.pc = "idle"
    /\ probe.reply.kind = "relay"
    /\ probe' = Called("do_call", do_call(probe.api, env, probe.q, probe.reply))
    /\ UNCHANGED <<config, now, jobs, issued, task, handler, log, client, db,
                   file, cell, env, dotenv, proc>>

ProviderInit ==
    /\ config = AiConfig(None, None)
    /\ now = 0
    /\ jobs = <<>>
    /\ issued = 0
    /\ task = <<>>
    /\ handler = [p \in Handlers |-> IdleHandler]
    /\ log = <<>>
    /\ client = IdleClient
    /\ db = EmptyDb
    /\ file = Ok(ServingConfig)
    /\ cell = Some(ServingConfig)
    /\ env \in {{}, {"API_KEY"}}
    /\ dotenv = {}
    /\ proc = [pc |-> "serving", loaded |-> Some(Ok(ServingConfig))]
    /\ probe \in {[pc |-> "idle", api |-> a, reply |-> r,
                   q |-> [model |-> "analysis-model", max_tokens |-> 8192,
                          system |-> sy, user |-> "prompt", thinking |-> th]] :
                    a \in ApiConfigs, r \in HttpReplies \cup RelayReplies,
                    sy \in {None, Some("system prompt")},
                    th \in {None} \cup {Some(t) : t \in ThinkingConfigs}}

ProviderNext ==
    \/ AnthropicCall
    \/ OpenAiCall
    \/ CallModel
    \/ DoCall

ProviderSpec == ProviderInit /\ [][ProviderNext]_vars

----------------------------------------------------------------------------
(* create_job on every store of up to MaxEntries records, of any status    *)
(* and of ages on both sides of one hour, registering a fresh id.          *)

StoreEntries ==
    [status : {Pending, Processing, Complete("T1"), Error("Analysis failed")},
     created_at : {0, 1, 1800, 3600}]

SweepTimes == {3599, 3600, 3601, 7200}

Stores == UNION {[D -> StoreEntries] : D \in SUBSET (1..MaxEntries)}

CreateJob ==
    /\ probe.pc = "idle"
    /\ probe' = [pc |-> "done", fn |-> "create_job", store |-> probe.store,
                 job_id |-> probe.job_id, t |-> probe.t,
                 out |-> create_job(probe.store, probe.job_id, probe.t)]
    /\ UNCHANGED <<config, now, jobs, issued, task, handler, log, client, db,
                   file, cell, env, dotenv, proc>>

StoreInit ==
    /\ config = AiConfig(None, None)
    /\ now = 0
    /\ jobs = <<>>
    /\ issued = 0
    /\ task = <<>>
    /\ handler = [p \in Handlers |-> IdleHandler]
    /\ log = <<>>
    /\ client = IdleClient
    /\ db = EmptyDb
    /\ file = Ok(ServingConfig)
    /\ cell = Some(ServingConfig)
    /\ env = {"API_KEY"}
    /\ dotenv = {}
    /\ proc = [pc |-> "serving", loaded |-> Some(Ok(ServingConfig))]
    /\ probe \in {[pc |-> "idle", store |-> s, job_id |-> MaxEntries + 1, t |-> t] :
                    s \in Stores, t \in SweepTimes}
    /\ \A i \in DOMAIN probe.store : probe.store[i].created_at <= probe.t

StoreNext == CreateJob

StoreSpec == StoreInit /\ [][StoreNext]_vars

----------------------------------------------------------------------------
(* bigfive: types.rs, inventory.rs, scoring.rs. A question id is a number  *)
(* here, and 0 is an id no question has.                                   *)

Domains ==
    <<"Neuroticism", "Extraversion", "Openness", "Agreeableness", "Conscientiousness">>

FacetIndexes == 1..6

Facet(domain, index) == [domain |-> domain, index |-> index]

InvalidAnswerCount(n) == [kind |-> "InvalidAnswerCount", n |-> n]
InvalidAnswerValue(v) == [kind |-> "InvalidAnswerValue", v |-> v]
MissingAnswer(id) == [kind |-> "MissingAnswer", id |-> id]
MissingFacetData(domain, index) ==
    [kind |-> "MissingFacetData", domain |-> domain, index |-> index]
InvalidFacetQuestionCount(domain, index, n) ==
    [kind |-> "InvalidFacetQuestionCount", domain |-> domain, index |-> index, n |-> n]

(* The embedded question data: 120 questions, four for each facet of each  *)
(* domain, some of them keyed "minus". The data files fix one order and    *)
(* one keying; the model takes two orders and two keyings.                 *)
Ipip120(order, keying) ==
    [q \in 1..ANSWER_COUNT |->
        [id |-> q,
         domain |-> IF order = "interleaved"
                    THEN Domains[((q - 1) % 5) + 1]
                    ELSE Domains[((q - 1) \div 24) + 1],
         facet_index |-> IF order = "interleaved"
                         THEN (((q - 1) \div 5) % 6) + 1
                         ELSE (((q - 1) % 24) \div 4) + 1,
         reversed |-> IF keying = "upper half" THEN q > 60 ELSE q % 7 \in {0, 3}]]

Inventories ==
    {Ipip120(o, k) : o \in {"interleaved", "grouped"}, k \in {"upper half", "sevenths"}}

RECURSIVE Sum(_)
Sum(s) == IF s = <<>> THEN 0 ELSE s[1] + Sum(Tail(s))

as_u8_FourBits(n) == n % 16

(* `as u8`: the low eight bits.                                            *)
as_u8(n) == n % 256

OutOfRangeAboveOnly(value) == value > 5

(* calculate: answer.value < 1 || answer.value > 5                         *)
OutOfRange(value) == value < 1 \/ value > 5

score_Unkeyed(question, answer_value) == answer_value

(* calculate: the score of one question.                                   *)
score(question, answer_value) ==
    IF question.reversed THEN 6 - answer_value ELSE answer_value

facet_level(raw) ==
    CASE raw \in 4..9 -> "Low"
      [] raw \in 10..14 -> "Neutral"
      [] raw \in 15..20 -> "High"
      [] OTHER -> "Neutral"

domain_level(raw) ==
    CASE raw \in 24..55 -> "Low"
      [] raw \in 56..87 -> "Neutral"
      [] raw \in 88..120 -> "High"
      [] OTHER -> "Neutral"

(* calculate: answers.iter().map(...).collect::<HashMap<_, _>>(): the last *)
(* answer given for an id is the one kept.                                 *)
answer_map(answers) ==
    [id \in {answers[i].question_id : i \in DOMAIN answers} |->
        LET given == {i \in DOMAIN answers : answers[i].question_id = id}
        IN  answers[CHOOSE i \in given : \A k \in given : k <= i].value]

(* calculate: facet_scores_raw[(domain, facet_index)], in question order.  *)
facet_scores_raw(inventory, answer_values, domain, facet_index) ==
    LET questions == SelectSeq(inventory,
                               LAMBDA q : q.domain = domain /\ q.facet_index = facet_index)
    IN  [k \in 1..Len(questions) |-> score(questions[k], answer_values[questions[k].id])]

(* calculate: the facet and domain scores built by the second loop.        *)
FacetScore(inventory, answer_values, domain, facet_index) ==
    LET scores == facet_scores_raw(inventory, answer_values, domain, facet_index)
        raw == as_u8(Sum(scores) % 65536)
    IN  [facet |-> Facet(domain, facet_index), raw |-> raw, level |-> facet_level(raw)]

DomainScore(inventory, answer_values, domain) ==
    LET facets == [f \in FacetIndexes |->
                      FacetScore(inventory, answer_values, domain, f)]
        domain_total == Sum([f \in FacetIndexes |-> facets[f].raw]) % 65536
    IN  [domain |-> domain, raw |-> as_u8(domain_total),
         level |-> domain_level(as_u8(domain_total)), facets |-> facets]

calculate(inventory, answers) ==
    LET invalid == {i \in DOMAIN answers : OutOfRange(answers[i].value)}
        answer_values == answer_map(answers)
        missing == {q \in DOMAIN inventory : inventory[q].id \notin DOMAIN answer_values}
        counts == [w \in (DOMAIN Domains) \X FacetIndexes |->
                      Len(SelectSeq(inventory,
                                    LAMBDA q : /\ q.domain = Domains[w[1]]
                                               /\ q.facet_index = w[2]))]
        wrong == {w \in DOMAIN counts : counts[w] # FACET_QUESTIONS}
    IN  IF Len(answers) # ANSWER_COUNT
        THEN Err(InvalidAnswerCount(Len(answers)))
        ELSE IF invalid # {}
        THEN Err(InvalidAnswerValue(
                 answers[CHOOSE i \in invalid : \A k \in invalid : i <= k].value))
        ELSE IF missing # {}
        THEN Err(MissingAnswer(
                 inventory[CHOOSE q \in missing : \A k \in missing : q <= k].id))
        ELSE IF wrong # {}
        THEN LET at == CHOOSE w \in wrong :
                           \A x \in wrong : w[1] < x[1] \/ (w[1] = x[1] /\ w[2] <= x[2])
             IN  IF counts[at] = 0
                 THEN Err(MissingFacetData(Domains[at[1]], at[2]))
                 ELSE Err(InvalidFacetQuestionCount(Domains[at[1]], at[2], counts[at]))
        ELSE Ok([domains |-> [d \in DOMAIN Domains |->
                                 DomainScore(inventory, answer_values, Domains[d])]])

----------------------------------------------------------------------------
(* calculate on answer lists made from a complete one (one value for the   *)
(* normally keyed questions, one for the reverse-keyed ones) by up to      *)
(* MaxEdits departures: a value out of range or at the other end of the    *)
(* scale, an id given twice or unknown, an answer missing or one too many, *)
(* the answers in another order.                                           *)

Answer(question_id, value) == [question_id |-> question_id, value |-> value]

Complete120(inventory, normal, reverse) ==
    [q \in DOMAIN inventory |->
        Answer(inventory[q].id, IF inventory[q].reversed THEN reverse ELSE normal)]

Edits ==
    [op : {"value"}, at : {1, 61}, to : {0, 1, 5, 6}]
    \cup [op : {"id"}, at : {120}, to : {0, 2}]
    \cup [op : {"drop", "extra", "backwards"}, at : {1}, to : {3}]

Edited(answers, e) ==
    CASE e.op = "value" /\ e.at <= Len(answers) ->
             [answers EXCEPT ![e.at].value = e.to]
      [] e.op = "id" /\ e.at <= Len(answers) ->
             [answers EXCEPT ![e.at].question_id = e.to]
      [] e.op = "drop" /\ answers # <<>> -> SubSeq(answers, 1, Len(answers) - 1)
      [] e.op = "extra" -> Append(answers, Answer(0, e.to))
      [] e.op = "backwards" ->
             [i \in 1..Len(answers) |-> answers[Len(answers) + 1 - i]]
      [] OTHER -> answers

RECURSIVE EditedAll(_, _)
EditedAll(answers, edits) ==
    IF edits = <<>> THEN answers
    ELSE EditedAll(Edited(answers, Head(edits)), Tail(edits))

EditLists == UNION {[1..n -> Edits] : n \in 0..MaxEdits}

Calculate ==
    /\ probe.pc = "idle"
    /\ probe' = [pc |-> "done", fn |-> "calculate", inventory |-> probe.inventory,
                 answers |-> probe.answers,
                 out |-> calculate(probe.inventory, probe.answers)]
    /\ UNCHANGED <<config, now, jobs, issued, task, handler, log, client, db,
                   file, cell, env, dotenv, proc>>

ScoreInit ==
    /\ config = AiConfig(None, None)
    /\ now = 0
    /\ jobs = <<>>
    /\ issued = 0
    /\ task = <<>>
    /\ handler = [p \in Handlers |-> IdleHandler]
    /\ log = <<>>
    /\ client = IdleClient
    /\ db = EmptyDb
    /\ file = Ok(ServingConfig)
    /\ cell = Some(ServingConfig)
    /\ env = {"API_KEY"}
    /\ dotenv = {}
    /\ proc = [pc |-> "serving", loaded |-> Some(Ok(ServingConfig))]
    /\ \E inventory \in Inventories, a \in {1, 3, 5}, b \in {1, 3, 5}, es \in EditLists :
          probe = [pc |-> "idle", inventory |-> inventory,
                   answers |-> EditedAll(Complete120(inventory, a, b), es)]

ScoreNext == Calculate

ScoreSpec == ScoreInit /\ [][ScoreNext]_vars

----------------------------------------------------------------------------
(* Vocabulary of the properties.                                           *)

(* The get_analysis_status calls past their status read, and the answer    *)
(* each of them is about to return.                                        *)
Matched == {p \in Handlers : handler[p].pc = "matched"}

Response(p) == StatusResponse(handler[p].seen)

NotFound == AnalysisStatusError(JobNotFound)

(* The terminal status the runner of a finished job passed to the store,   *)
(* and the answer that delivers it.                                        *)
Written(j) == log[j].updates[Len(log[j].updates)]

Delivery(st) ==
    IF st.tag = "Complete" THEN AnalysisStatusComplete(st.v) ELSE AnalysisStatusError(st.v)

----------------------------------------------------------------------------
(* C1, as stated: the first get_analysis_status call made after the runner *)
(* wrote Complete(T) or Error(m) answers with that result, and every call  *)
(* made after a delivering call returned answers "Job not found".          *)
C1_AsStated ==
    \A p \in Matched :
        /\ handler[p].first => Response(p) = Delivery(Written(handler[p].job_id))
        /\ handler[p].late => Response(p) = NotFound

(* C1, amended: the first call made after the terminal write answers with  *)
(* that result unless the age sweep of a later create_job dropped the      *)
(* record first, and then it answers "Job not found"; a call that delivers *)
(* the result leaves no record behind, and every call made after a         *)
(* delivering call returned answers "Job not found".                       *)
C1_DeliveredOnce ==
    /\ \A p \in Matched :
        LET j == handler[p].job_id
        IN  /\ handler[p].first =>
                \/ Response(p) = Delivery(Written(j))
                \/ log[j].evicted /\ Response(p) = NotFound
            /\ handler[p].late => Response(p) = NotFound
    /\ \A j \in Ids : log[j].delivered => j \notin DOMAIN jobs

(* One call is answering "Job not found" for a job already delivered while *)
(* another is the first to find a different job's terminal result.         *)
C1_Witness ==
    \E p, q \in Matched :
        /\ handler[p].late /\ Response(p) = NotFound
        /\ handler[q].first /\ Delivers(handler[q].seen)

----------------------------------------------------------------------------
(* The pipeline of job j has not produced its outcome yet.                 *)
PipelinePending(j) == task[j].pc \notin {"finish", "done"}

----------------------------------------------------------------------------
(* C3: the status values a job's record takes are a prefix of Pending,     *)
(* Processing, then one terminal status; the runner passes exactly two     *)
(* statuses to update_job_status, Processing first and a terminal one      *)
(* second.                                                                 *)
C3_StatusSequence ==
    \A j \in Ids :
        /\ Len(log[j].statuses) \in 1..3
        /\ log[j].statuses[1] = Pending
        /\ Len(log[j].statuses) >= 2 => log[j].statuses[2] = Processing
        /\ Len(log[j].statuses) = 3 =>
              /\ IsTerminal(log[j].statuses[3])
              /\ log[j].statuses[3] = Written(j)
        /\ Len(log[j].updates) <= 2
        /\ Len(log[j].updates) >= 1 => log[j].updates[1] = Processing
        /\ Len(log[j].updates) = 2 => IsTerminal(log[j].updates[2])
        /\ TaskDone(j) <=> Len(log[j].updates) = 2
        /\ task[j].pc = "spawned" <=> Len(log[j].updates) = 0

(* Two jobs ran to the end, one to Complete and one to Error.              *)
C3_Witness ==
    \E j, k \in Ids :
        /\ TaskDone(j) /\ Len(log[j].statuses) = 3 /\ log[j].statuses[3].tag = "Complete"
        /\ TaskDone(k) /\ Len(log[k].statuses) = 3 /\ log[k].statuses[3].tag = "Error"

----------------------------------------------------------------------------
(* C4: Complete and Error are absorbing: no step changes the status of a   *)
(* record that holds a terminal status; a step can only delete the record. *)
C4_TerminalAbsorbing ==
    [][\A j \in DOMAIN jobs :
          (IsTerminal(jobs[j].status) /\ j \in DOMAIN jobs')
              => jobs'[j].status = jobs[j].status]_vars

(* A finished job is still stored, at least an hour old, next to a job     *)
(* created later: a create_job swept the store while it was terminal.      *)
C4_Witness ==
    \E j, k \in DOMAIN jobs :
        /\ IsTerminal(jobs[j].status)
        /\ jobs[k].created_at > jobs[j].created_at
        /\ TaskDone(k)

----------------------------------------------------------------------------
(* The provider calls of job j at a stage (positions in its call history), *)
(* and whether a call has returned.                                        *)
CallsOf(j, stage) == {k \in 1..Len(log[j].calls) : log[j].calls[k].stage = stage}

Returned(j, k) == k <= Len(log[j].replies)

PipelineDone(j) == task[j].pc \in {"finish", "done"}

(* The safeguard stage of job j ran and its model replied.                 *)
SafeguardReplied(j) ==
    /\ 1 \in CallsOf(j, "safeguard")
    /\ Returned(j, 1)
    /\ IsOk(log[j].replies[1])

(* C5: when the safeguard reply is classified unsafe, the pipeline returns *)
(* UnsafeInput, no generation or translation call is made, and the job     *)
(* ends in Error with the fixed unsafe-input message.                      *)
C5_UnsafeAborts ==
    \A j \in Ids :
        (SafeguardReplied(j) /\ IsUnsafe(log[j].replies[1].v)) =>
            /\ task[j].result = Some(Err(UnsafeInput))
            /\ CallsOf(j, "generation") = {}
            /\ CallsOf(j, "translation") = {}
            /\ TaskDone(j) =>
                  /\ Written(j) = Error(UnsafeInputMessage)
                  /\ get_job_status(jobs, j) = Some(Error(UnsafeInputMessage))

(* A job ended after the safeguard model answered UNSAFE.                  *)
C5_Witness ==
    \E j \in Ids :
        /\ SafeguardReplied(j)
        /\ log[j].replies[1].v = UNSAFE
        /\ TaskDone(j)

----------------------------------------------------------------------------
(* w occurs in u as a contiguous run of characters.                        *)
Occurs(u, w) ==
    \E i \in 1..(Len(u) - Len(w) + 1) :
        \A k \in 1..Len(w) : u[i + k - 1] = w[k]

(* C6: with u the trimmed, uppercased reply, the pipeline goes on to       *)
(* generation exactly when u contains SAFE and does not contain UNSAFE;    *)
(* for every other reply it returns UnsafeInput and generation is not      *)
(* invoked.                                                                *)
C6_ConservativeClassifier ==
    \A j \in Ids :
        SafeguardReplied(j) =>
            LET u == ToUppercase(Trim(log[j].replies[1].v))
            IN  IF Occurs(u, SAFE) /\ ~Occurs(u, UNSAFE)
                THEN /\ task[j].result # Some(Err(UnsafeInput))
                     /\ task[j].pc = "generate" \/ CallsOf(j, "generation") # {}
                ELSE /\ task[j].result = Some(Err(UnsafeInput))
                     /\ CallsOf(j, "generation") = {}

(* The safeguard model answered MAYBE and the job ended without a          *)
(* generation call.                                                        *)
C6_Witness ==
    \E j \in Ids :
        /\ SafeguardReplied(j)
        /\ log[j].replies[1].v = <<"M", "A", "Y", "B", "E">>
        /\ TaskDone(j)
        /\ Len(log[j].calls) = 1

----------------------------------------------------------------------------
(* C7: the safeguard call is made if and only if a safeguard is            *)
(* configured and enabled and the user context is present with at least    *)
(* one non-whitespace character; otherwise the pipeline goes straight to   *)
(* generation.                                                             *)
C7_SafeguardGate ==
    \A j \in Ids :
        task[j].pc \notin {"spawned", "generate_analysis"} =>
            LET context == task[j].user_context
                gate == /\ IsSome(config.safeguard)
                        /\ config.safeguard.v.enabled
                        /\ IsSome(context)
                        /\ \E i \in 1..Len(context.v) : ~IsWhitespace(context.v[i])
            IN  /\ CallsOf(j, "safeguard") = (IF gate THEN {1} ELSE {})
                /\ ~gate => /\ task[j].pc # "safeguard"
                            /\ task[j].pc = "generate" \/ 1 \in CallsOf(j, "generation")

(* With the safeguard enabled, a whitespace-only context went straight to  *)
(* the generation call.                                                    *)
C7_Witness ==
    \E j \in Ids :
        /\ SafeguardEnabled(config)
        /\ task[j].user_context = Some(<<"\t", " ", "\n">>)
        /\ 1 \in CallsOf(j, "generation")

----------------------------------------------------------------------------
(* C8, as stated: a job started with a model id the registry does not know *)
(* makes no provider call and ends in Error with the InvalidModel failure. *)
C8_AsStated ==
    \A j \in Ids :
        get_model(task[j].model_id) = None =>
            /\ log[j].calls = <<>>
            /\ PipelineDone(j) =>
                  task[j].result = Some(Err(InvalidModel(task[j].model_id)))
            /\ TaskDone(j) =>
                  Written(j) = Error(Display(InvalidModel(task[j].model_id)))

----------------------------------------------------------------------------
(* The generation call of job j succeeded (at position k of its history).  *)
Generated(j, k) ==
    /\ k \in CallsOf(j, "generation")
    /\ Returned(j, k)
    /\ IsOk(log[j].replies[k])

Succeeded(j) == PipelineDone(j) /\ IsOk(task[j].result.v)

(* C9: when no translation is configured, or the configured source         *)
(* (native) language is the interface language, no translation call is     *)
(* made and the pipeline's text is the generation call's output.           *)
C9_NoTranslation ==
    \A j \in Ids :
        (\/ ~IsSome(config.translation)
         \/ Code(config.translation.v.source_language) = task[j].lang) =>
            /\ CallsOf(j, "translation") = {}
            /\ Succeeded(j) =>
                  \E k \in 1..Len(log[j].calls) :
                      /\ Generated(j, k)
                      /\ task[j].result.v = log[j].replies[k]
            /\ (TaskDone(j) /\ Succeeded(j)) =>
                  Written(j) = Complete(log[j].replies[Len(log[j].replies)].v)

(* Translation is enabled, the source language is the interface language,  *)
(* and the job completed with the generated text.                          *)
C9_Witness ==
    \E j \in Ids :
        /\ use_translation(config)
        /\ Code(config.translation.v.source_language) = task[j].lang
        /\ TaskDone(j)
        /\ Succeeded(j)

----------------------------------------------------------------------------
(* What the translation stage of job j must look like once generation      *)
(* succeeded: one call right after the generation call, to the translation *)
(* block's model with its token budget, at its endpoint (the main endpoint *)
(* when the block sets none), with a prompt that embeds the generated      *)
(* text; and its output is the pipeline's text.                            *)
TranslatedAfter(j, k) ==
    LET translation == config.translation.v
        call == log[j].calls[k + 1]
    IN  /\ CallsOf(j, "translation") = {k + 1}
        /\ call.api = (IF IsSome(translation.api) THEN translation.api.v ELSE config.api)
        /\ call.model = translation.model
        /\ call.max_tokens = translation.max_tokens
        /\ call.user.kind = "translation"
        /\ call.user.text = log[j].replies[k].v
        /\ (Returned(j, k + 1) /\ IsOk(log[j].replies[k + 1])) =>
              /\ task[j].result = Some(log[j].replies[k + 1])
              /\ TaskDone(j) => Written(j) = Complete(log[j].replies[k + 1].v)

----------------------------------------------------------------------------
(* The age of a stored record at time t.                                   *)
Age(store, i, t) == t - store[i].created_at

(* C11: after a create_job call, the store holds no entry that is more     *)
(* than one hour old, whatever its status and whether or not it was polled. *)
C11_SweptOnCreate ==
    [][issued' # issued =>
          \A i \in DOMAIN jobs' : Age(jobs', i, now') <= MAX_AGE]_vars

(* A create_job dropped a record that was still Processing and had never   *)
(* been polled, and the new record is stored.                              *)
C11_Witness ==
    \E j, k \in Ids :
        /\ log[j].evicted
        /\ log[j].statuses[Len(log[j].statuses)] = Processing
        /\ ~log[j].polled
        /\ k \in DOMAIN jobs
        /\ j \notin DOMAIN jobs

----------------------------------------------------------------------------
(* The runner of job j called update_job_status in this step.              *)
Updates(j) == log'[j].updates # log[j].updates

(* C12: with several jobs in flight in any interleaving, a stored status   *)
(* is Pending, Processing or the whole outcome of that job's own pipeline; *)
(* a poll that finds a terminal status finds the one of the id it asked    *)
(* for; and a status write for one id leaves every other record as it was. *)
C12_Isolation ==
    /\ [](\A j \in DOMAIN jobs :
            \/ jobs[j].status \in {Pending, Processing}
            \/ TaskDone(j) /\ jobs[j].status = FinalStatus(task[j].result.v))
    /\ [](\A p \in Matched :
            Delivers(handler[p].seen) =>
                /\ handler[p].job_id \in Ids
                /\ TaskDone(handler[p].job_id)
                /\ Response(p) = Delivery(FinalStatus(task[handler[p].job_id].result.v)))
    /\ [][\A j \in Ids :
            Updates(j) =>
                \A k \in DOMAIN jobs \ {j} : k \in DOMAIN jobs' /\ jobs'[k] = jobs[k]]_vars

(* Two jobs created at the same time completed with different texts, and   *)
(* two calls are answering at once, each with the text of its own id.      *)
C12_Witness ==
    \E p, q \in Matched :
        /\ handler[p].job_id # handler[q].job_id
        /\ Response(p) = AnalysisStatusComplete("R1")
        /\ Response(q) = AnalysisStatusComplete("R2")
        /\ task[handler[p].job_id].result.v = Ok("R1")
        /\ task[handler[q].job_id].result.v = Ok("R2")
        /\ jobs[handler[p].job_id].created_at = jobs[handler[q].job_id].created_at

----------------------------------------------------------------------------
(* C13: update_job_status on an id that is not in the store changes        *)
(* nothing in the store, and the runner that called it goes on as it does  *)
(* after any other update: to the pipeline after the Processing write, to  *)
(* its end after the terminal write.                                       *)
C13_UpdateAbsentNoOp ==
    [][\A j \in Ids :
          (Updates(j) /\ j \notin DOMAIN jobs) =>
              /\ jobs' = jobs
              /\ task'[j] = [task[j] EXCEPT !.pc = IF task[j].pc = "spawned"
                                                    THEN "generate_analysis"
                                                    ELSE "done"]]_vars

(* The record of a job was swept before its runner started; the runner     *)
(* made both its writes to the missing id and ended with a generated text. *)
C13_Witness ==
    \E j \in Ids :
        /\ TaskDone(j)
        /\ log[j].evicted
        /\ log[j].statuses = <<Pending>>
        /\ Len(log[j].updates) = 2
        /\ IsOk(task[j].result.v)
        /\ j \notin DOMAIN jobs

----------------------------------------------------------------------------
(* The call in slot p found its job not finished.                          *)
SeenUnfinished(p) ==
    IsSome(handler[p].seen) /\ handler[p].seen.v \in {Pending, Processing}

(* C14: a get_analysis_status call that finds Pending or Processing        *)
(* answers Pending in both cases, and neither its read nor its answer      *)
(* changes the store.                                                      *)
C14_PendingPollReadOnly ==
    /\ [](\A p \in Matched : SeenUnfinished(p) => Response(p) = AnalysisStatusPending)
    /\ [][\A p \in Matched :
            (SeenUnfinished(p) /\ handler'[p].pc = "idle") => jobs' = jobs]_vars
    /\ [][\A p \in Handlers :
            (handler[p].pc = "idle" /\ handler'[p].pc = "matched") => jobs' = jobs]_vars

(* Two calls on the same job, one that found Pending and one that found    *)
(* Processing, are both about to answer Pending, and the record is still   *)
(* stored.                                                                 *)
C14_Witness ==
    \E p, q \in Matched :
        /\ handler[p].job_id = handler[q].job_id
        /\ handler[p].seen = Some(Pending)
        /\ handler[q].seen = Some(Processing)
        /\ Response(p) = AnalysisStatusPending
        /\ Response(q) = AnalysisStatusPending
        /\ handler[p].job_id \in DOMAIN jobs

----------------------------------------------------------------------------
(* The id was never handed out, or its result was delivered, or its record *)
(* was swept.                                                              *)
Gone(job_id) ==
    \/ job_id \notin Ids
    \/ log[job_id].delivered
    \/ log[job_id].evicted

(* C15: a get_analysis_status call that starts on an id that was never     *)
(* created, was already delivered or was evicted answers                   *)
(* Error("Job not found"), the same value in the three cases, and leaves   *)
(* the store as it was.                                                    *)
C15_NotFoundUniform ==
    /\ [][\A p \in Handlers :
            (handler[p].pc = "idle" /\ handler'[p].pc = "matched"
                /\ Gone(handler'[p].job_id)) =>
                /\ StatusResponse(handler'[p].seen) = [wire |-> "Error", v |-> "Job not found"]
                /\ jobs' = jobs]_vars
    /\ [][\A p \in Matched :
            (handler[p].seen = None /\ handler'[p].pc = "idle") => jobs' = jobs]_vars

(* One call asks for an id that was never handed out and another for a     *)
(* swept one, both about to answer "Job not found", after the other job    *)
(* was delivered.                                                          *)
C15_Witness ==
    \E p, q \in Matched, k \in Ids :
        /\ handler[p].job_id \notin Ids
        /\ handler[q].job_id \in Ids
        /\ log[handler[q].job_id].evicted
        /\ ~log[handler[q].job_id].delivered
        /\ log[k].delivered
        /\ Response(p) = NotFound
        /\ Response(q) = NotFound

----------------------------------------------------------------------------
(* The pipeline of job j returned a failure.                               *)
Failed(j) == PipelineDone(j) /\ ~IsOk(task[j].result.v)

(* C16: whatever failure the pipeline returns, the runner records it as    *)
(* the job's terminal Error status with the failure's string form; the     *)
(* job does not stay Pending or Processing, does not become Complete, and  *)
(* no provider call is made again after a failure.                         *)
C16_FailuresRecorded ==
    \A j \in Ids :
        Failed(j) =>
            LET e == task[j].result.v.e
            IN  /\ e.kind \in {"Config", "Request", "ApiError", "ParseResponse",
                               "EmptyResponse", "UnsafeInput", "InvalidModel"}
                /\ TaskDone(j) =>
                      /\ Written(j) = Error(Display(e))
                      /\ get_job_status(jobs, j) = Some(Error(Display(e)))
                      /\ log[j].statuses = <<Pending, Processing, Error(Display(e))>>
                /\ Len(log[j].calls) = Len(log[j].replies)
                /\ \A k \in 1..Len(log[j].replies) :
                      ~IsOk(log[j].replies[k]) => k = Len(log[j].calls)
                /\ \A stage \in {"safeguard", "generation", "translation"} :
                      Cardinality(CallsOf(j, stage)) <= 1

(* The translation call failed with an HTTP 500 after the safeguard and    *)
(* the generation call succeeded, and the job ended in Error with that     *)
(* failure's text.                                                         *)
C16_Witness ==
    \E j \in Ids :
        /\ TaskDone(j)
        /\ Len(log[j].calls) = 3
        /\ task[j].result.v = Err(ApiError(500, "overloaded"))
        /\ get_job_status(jobs, j) = Some(Error("API error (500): overloaded"))

----------------------------------------------------------------------------
(* A call that hands the text to the saved results for the id was made.    *)
Persisted(id, analysis) ==
    \E k \in 1..Len(db.calls) :
        db.calls[k].id = id /\ db.calls[k].analysis = analysis

(* C17, as stated: once the pipeline of a job started with a result id has *)
(* succeeded and its status is written, the final text has been handed to  *)
(* the persistence collaborator for that id (whoever made the call, once   *)
(* the results page has nothing left to do); and the job's status is       *)
(* Complete(text) whether or not that call succeeded.                      *)
C17_AsStated ==
    \A j \in Ids :
        (TaskDone(j) /\ IsOk(task[j].result.v) /\ IsSome(task[j].result_id)) =>
            /\ Written(j) = Complete(task[j].result.v.v)
            /\ client.pc = "stopped" =>
                  Persisted(task[j].result_id.v, task[j].result.v.v)

----------------------------------------------------------------------------
(* C18: every started job's task reaches its terminal status write, when   *)
(* the runtime keeps resuming the task and every provider call returns,    *)
(* whether or not anybody polls and whether or not the record is still in  *)
(* the store.                                                              *)
C18_RunnerTerminates ==
    \A j \in 1..MaxJobs :
        (issued >= j) ~>
            (issued >= j /\ TaskDone(j) /\ IsTerminal(Written(j)))

(* A job nobody polled: its record was swept while the generation call was *)
(* in flight, the call timed out, and the runner made its terminal write.  *)
C18_Witness ==
    \E j \in Ids :
        /\ TaskDone(j)
        /\ ~log[j].polled
        /\ log[j].evicted
        /\ log[j].statuses = <<Pending, Processing>>
        /\ Written(j) = Error("API request failed: operation timed out")

----------------------------------------------------------------------------
(* C19: the poll loop of the results page always ends. It stops at the     *)
(* first answer that is not Pending (Complete, Error or a transport        *)
(* error), and otherwise gives up with the timeout error within            *)
(* MAX_POLL_ATTEMPTS turns, whatever the state of the job; giving up       *)
(* changes nothing on the server.                                          *)
C19_PollLoopTerminates ==
    /\ (client.pc # "idle") ~> (client.pc = "stopped")
    /\ [](/\ client.poll_count <= MAX_POLL_ATTEMPTS
          /\ client.polls <= client.poll_count)
    /\ [][client.pc = "calling" =>
            /\ client'.pc \in {"calling", "sleep", "persist", "stopped"}
            /\ client'.pc = "sleep" =>
                  StatusResponse(handler[client.slot].seen) = AnalysisStatusPending
            /\ client'.pc = "persist" =>
                  StatusResponse(handler[client.slot].seen).wire = "Complete"]_vars
    /\ [][(client.pc = "sleep" /\ client'.pc = "stopped") =>
            /\ client'.ai_error = Some("Analysis timed out. Please try again.")
            /\ UNCHANGED <<jobs, task, handler, issued, db>>]_vars

(* The loop gave up at the limit while the generation call of its job was  *)
(* still in flight and the record still stored.                            *)
C19_Witness ==
    /\ client.pc = "stopped"
    /\ client.ai_error = Some(PollTimeoutMessage)
    /\ client.poll_count = MAX_POLL_ATTEMPTS
    /\ client.polls = MAX_POLL_ATTEMPTS - 1
    /\ client.job_id \in DOMAIN jobs
    /\ jobs[client.job_id].status = Processing
    /\ Awaiting(client.job_id)

----------------------------------------------------------------------------
(* The program has nothing left to do by itself: every task has ended and  *)
(* no call is in flight. Only a new request can make it act.               *)
Quiescent ==
    /\ \A j \in Ids : TaskDone(j)
    /\ \A p \in Handlers : handler[p].pc = "idle"

(* C20, as stated: a record more than one hour old is removed without      *)
(* anybody asking: it is never what is left when the program has come to   *)
(* rest.                                                                   *)
C20_AsStated ==
    Quiescent => \A j \in DOMAIN jobs : Age(jobs, j, now) <= MAX_AGE

(* A get_analysis_status call answers with the terminal status of job j    *)
(* in this step, which removes the record.                                 *)
Consumed(j) ==
    \E p \in Matched :
        /\ handler[p].job_id = j
        /\ RemovesJob(handler[p].seen)
        /\ handler'[p].pc = "idle"

(* C20, amended: the sweep runs in create_job only. A create_job call      *)
(* removes every record that is at least one hour old, and a record leaves *)
(* the store in no other way than such a sweep or the call that delivers   *)
(* its terminal status; until one of them happens the record stays.        *)
C20_ReclaimedOnCreate ==
    /\ [][issued' # issued =>
            \A j \in DOMAIN jobs :
                Age(jobs, j, now) >= MAX_AGE => j \notin DOMAIN jobs']_vars
    /\ [][\A j \in DOMAIN jobs :
            j \notin DOMAIN jobs' =>
                \/ issued' # issued /\ Age(jobs, j, now) >= MAX_AGE
                \/ Consumed(j)]_vars

(* A finished job nobody polled was dropped by the sweep of a later        *)
(* create_job.                                                             *)
C20_Witness ==
    \E j \in Ids :
        /\ log[j].evicted
        /\ ~log[j].polled
        /\ Len(log[j].statuses) = 3
        /\ j \notin DOMAIN jobs
        /\ \E k \in DOMAIN jobs : jobs[k].created_at >= MAX_AGE

----------------------------------------------------------------------------
(* The generation calls job j has made.                                    *)
GenerationCalls(j) ==
    {log[j].calls[k] : k \in {i \in 1..Len(log[j].calls) :
                                 log[j].calls[i].stage = "generation"}}

(* C21, as stated: the generation-stage prompt is always written for the   *)
(* declared native language (the source_language of the configuration's    *)
(* translation block), for every interface language and translation        *)
(* configuration, also when translation is not used and the interface      *)
(* language differs from the native language.                              *)
C21_AsStated ==
    \A j \in Ids : \A call \in GenerationCalls(j) :
        IsSome(config.translation) =>
            call.user.lang = config.translation.v.source_language

----------------------------------------------------------------------------
(* The start-up load is over; it accepted the file, or it rejected it.     *)
Loaded == proc.pc = "serving"

Accepted == Loaded /\ IsSome(cell)

Rejected == Loaded /\ ~IsSome(cell)

(* The presets of configuration c that are marked default.                 *)
Defaults(c) == {i \in 1..Len(c.models) : c.models[i].default}

(* default_model was called on the accepted configuration.                 *)
DefaultAsked == probe.pc = "done" /\ probe.fn = "default_model"

(* C22: validation rejects a configuration with more than one preset       *)
(* marked default and never rejects one for having zero or one; on every   *)
(* accepted configuration default_model returns the unique preset marked   *)
(* default if there is one, and otherwise the first preset in declaration  *)
(* order.                                                                  *)
C22_DefaultPreset ==
    /\ (Loaded /\ IsOk(file) /\ Cardinality(Defaults(file.v)) > 1) => Rejected
    /\ (Rejected /\ IsOk(file) /\ Cardinality(Defaults(file.v)) <= 1) =>
          proc.loaded.v.e.msg # "Only one model can be marked as default"
    /\ DefaultAsked =>
          LET marked == Defaults(cell.v)
          IN  /\ Cardinality(marked) <= 1
              /\ \A i \in marked : probe.out = cell.v.models[i]
              /\ marked = {} => probe.out = cell.v.models[1]

(* default_model was called on an accepted configuration of two presets    *)
(* whose second preset is the one marked default.                          *)
C22_Witness ==
    /\ DefaultAsked
    /\ Len(cell.v.models) = 2
    /\ Defaults(cell.v) = {2}
    /\ probe.out = cell.v.models[2]

----------------------------------------------------------------------------
(* An API block with the OpenAI-compatible provider kind and no URL.       *)
LacksUrl(api) == api.provider = "OpenAiCompatible" /\ ~IsSome(api.api_url)

(* The API blocks of configuration c: each preset's own, each preset's     *)
(* translation block's, and the safeguard's.                               *)
ApiBlocks(c) ==
    {c.models[i].api : i \in 1..Len(c.models)}
    \cup {c.models[i].translation.v.api :
            i \in {k \in 1..Len(c.models) : IsSome(c.models[k].translation)}}
    \cup (IF IsSome(c.safeguard) THEN {c.safeguard.v.api} ELSE {})

(* C23, as stated: validation rejects every configuration in which an API  *)
(* block of the OpenAI-compatible kind has no URL, wherever the block      *)
(* sits: a preset's own API, the safeguard's API whether the safeguard is  *)
(* enabled or disabled, or a preset's translation API.                     *)
C23_AsStated ==
    (Loaded /\ IsOk(file) /\ \E api \in ApiBlocks(file.v) : LacksUrl(api))
        => Rejected

----------------------------------------------------------------------------
(* C24: validation rejects a configuration that defines no model preset,   *)
(* so the preset list of every accepted configuration is non-empty and     *)
(* default_model on it returns a preset (it does not panic).               *)
C24_PresetsNonEmpty ==
    /\ (Loaded /\ IsOk(file) /\ Len(file.v.models) = 0) =>
          /\ Rejected
          /\ proc.loaded.v = Err(Validation("At least one model preset is required"))
    /\ Accepted => Len(cell.v.models) > 0
    /\ DefaultAsked => probe.out \in ModelPresets

(* A file without presets was loaded and rejected.                         *)
C24_Witness ==
    /\ Rejected
    /\ IsOk(file)
    /\ Len(file.v.models) = 0
    /\ proc.loaded.v = Err(Validation("At least one model preset is required"))

----------------------------------------------------------------------------
(* get_model was called with id on the accepted configuration.             *)
ModelAsked(id) ==
    probe.pc = "done" /\ probe.fn = "get_model" /\ probe.arg = Some(id)

(* C25, as stated: in every configuration that passes validation the       *)
(* preset ids are pairwise distinct, so get_model(id) returns the one      *)
(* preset with that id when there is one and None otherwise.               *)
C25_AsStated ==
    /\ Accepted =>
          \A i, k \in 1..Len(cell.v.models) :
              cell.v.models[i].id = cell.v.models[k].id => i = k
    /\ \A id \in {"opus", "sonnet", "haiku"} :
          ModelAsked(id) =>
              LET with == {i \in 1..Len(cell.v.models) : cell.v.models[i].id = id}
              IN  /\ Cardinality(with) <= 1
                  /\ \A i \in with : probe.out = Some(cell.v.models[i])
                  /\ with = {} => probe.out = None

----------------------------------------------------------------------------
(* C26, as stated: once the start-up configuration load has failed the     *)
(* process serves no request: no start_analysis and no get_analysis_status *)
(* call is ever handled.                                                   *)
C26_AsStated ==
    (Loaded /\ ~IsOk(proc.loaded.v)) =>
        /\ issued = 0
        /\ \A p \in Handlers : handler[p].pc = "idle"

----------------------------------------------------------------------------
(* The failure of a provider call made while the key variable is not set,  *)
(* and the status a job ends with after it.                                *)
KeyNotSet == ConfigError("Environment variable 'API_KEY' not set")

KeyNotSetStatus ==
    Error("Configuration error: Invalid configuration: Environment variable 'API_KEY' not set")

LastReply(lg, j) == lg[j].replies[Len(lg[j].replies)]

(* C27: a missing key variable does not make the start-up load fail; every *)
(* provider call attempted while it is missing returns the Config failure  *)
(* and puts no request on the network, whatever the network would have     *)
(* answered; the job of that call ends with the Error status of that       *)
(* failure, and a job whose call returned a text still ends Complete with  *)
(* that text.                                                              *)
C27_MissingKeyAtCallTime ==
    /\ [](Loaded /\ file = Ok(ServingConfig) => Accepted)
    /\ []("API_KEY" \notin env =>
            LET q == [model |-> "analysis-model", max_tokens |-> 8192,
                      system |-> None, user |-> "prompt", thinking |-> None]
                unsent == [request |-> None, result |-> Err(KeyNotSet)]
            IN  /\ \A api \in ApiConfigs, reply \in HttpReplies :
                      call_model(api, env, q, reply) = unsent
                /\ \A api \in ApiConfigs, reply \in RelayReplies :
                      do_call(api, env, q, reply) = unsent)
    /\ [][\A j \in Ids :
            (task[j].pc = "generation" /\ task'[j].pc # "generation"
             /\ "API_KEY" \notin env)
                => LastReply(log', j) = Err(KeyNotSet)]_vars
    /\ [](\A j \in Ids :
            (TaskDone(j) /\ log[j].replies # <<>>) =>
                /\ LastReply(log, j) = Err(KeyNotSet) => Written(j) = KeyNotSetStatus
                /\ IsOk(LastReply(log, j)) => Written(j) = Complete(LastReply(log, j).v))

(* The process was started without the key variable and accepted its       *)
(* file; the first job ended with the Config failure of the missing        *)
(* variable; the variable was then provided and the second job ended       *)
(* Complete.                                                               *)
C27_Witness ==
    /\ Accepted
    /\ issued = 2
    /\ TaskDone(1) /\ Written(1) = KeyNotSetStatus
    /\ TaskDone(2) /\ Written(2) = Complete("A")

----------------------------------------------------------------------------
(* A provider function was applied and put a request on the network.       *)
Sent(fns) == probe.pc = "done" /\ probe.fn \in fns /\ IsSome(probe.request)

(* The network's reply is a response whose status is not 2xx.              *)
NonSuccess(reply) == reply.kind = "response" /\ reply.status \notin 200..299

ApiErrorStatus(status, body) ==
    Error("API error (" \o ToString(status) \o "): " \o body)

(* C28, as stated: for both provider kinds a response with a non-2xx       *)
(* status makes the call fail with ApiError carrying exactly that status   *)
(* and the response body, and that failure is what the job's Error message *)
(* shows.                                                                  *)
C28_AsStated ==
    (Sent({"anthropic", "openai", "call_model"}) /\ NonSuccess(probe.reply)) =>
        /\ probe.result = Err(ApiError(probe.reply.status, probe.reply.body))
        /\ FinalStatus(probe.result) =
              ApiErrorStatus(probe.reply.status, probe.reply.body)

(* C28, amended: for both provider kinds a response with a non-2xx status  *)
(* makes the call fail with ApiError carrying exactly that status and the  *)
(* body as the client read it, which is the empty string when the body     *)
(* cannot be read; an ApiError reported by the relay client is passed on   *)
(* with its status and body; the failure is never a text nor another kind, *)
(* and the job's Error message shows that status and body.                 *)
C28_ApiErrorSurfaced ==
    /\ (Sent({"anthropic", "openai", "call_model"}) /\ NonSuccess(probe.reply)) =>
          LET body == IF probe.reply.readable THEN probe.reply.body ELSE ""
          IN  /\ probe.result = Err(ApiError(probe.reply.status, body))
              /\ FinalStatus(probe.result) = ApiErrorStatus(probe.reply.status, body)
    /\ (Sent({"do_call"}) /\ ~IsOk(probe.reply.outcome)
        /\ probe.reply.outcome.e.variant = "ApiError") =>
          LET e == probe.reply.outcome.e
          IN  /\ probe.result = Err(ApiError(e.status, e.body))
              /\ FinalStatus(probe.result) = ApiErrorStatus(e.status, e.body)

(* The OpenAI-compatible call got a 429 response and read its body.        *)
C28_Witness ==
    /\ Sent({"openai"})
    /\ NonSuccess(probe.reply)
    /\ probe.reply.status = 429
    /\ probe.reply.readable
    /\ probe.result = Err(ApiError(429, "overloaded"))

----------------------------------------------------------------------------
(* The text segments of a content list, concatenated in order.             *)
RECURSIVE TextOf(_)
TextOf(content) ==
    IF content = <<>> THEN ""
    ELSE (IF Head(content).type = "text" THEN Head(content).text.v ELSE "")
         \o TextOf(Tail(content))

(* The reply is a 2xx response whose body parses to a list of content      *)
(* segments.                                                               *)
Segmented(reply) ==
    /\ reply.kind = "response"
    /\ reply.status \in 200..299
    /\ reply.readable
    /\ IsSome(reply.json)
    /\ "content" \in DOMAIN reply.json.v

(* C29, as stated: for every successful response made of an ordered list   *)
(* of typed content segments the call returns the concatenation, in order, *)
(* of the text segments only, and fails with EmptyResponse when the list   *)
(* has no text segment.                                                    *)
C29_AsStated ==
    (Sent({"anthropic", "call_model"}) /\ probe.api.provider = "Anthropic"
     /\ Segmented(probe.reply)) =>
        LET content == probe.reply.json.v.content
        IN  probe.result =
              IF \E i \in 1..Len(content) : content[i].type = "text"
              THEN Ok(TextOf(content))
              ELSE Err(EmptyResponse)

----------------------------------------------------------------------------
(* C30, as stated: the Anthropic request carries a thinking parameter if   *)
(* and only if a thinking configuration was supplied: with none, neither   *)
(* thinking nor output_config is a key of the request; with a budget, the  *)
(* budget is attached unchanged; with adaptive mode, the adaptive marker   *)
(* is attached together with the configured effort tier.                   *)
C30_AsStated ==
    Sent({"anthropic"}) =>
        LET request == probe.request.v
            thinking == probe.q.thinking
        IN  /\ "thinking" \in DOMAIN request <=> IsSome(thinking)
            /\ ~IsSome(thinking) => "output_config" \notin DOMAIN request
            /\ (IsSome(thinking) /\ thinking.v.type = "enabled") =>
                  request.thinking =
                      [type |-> "enabled", budget_tokens |-> thinking.v.budget_tokens]
            /\ (IsSome(thinking) /\ thinking.v.type = "adaptive") =>
                  /\ request.thinking = [type |-> "adaptive"]
                  /\ "output_config" \in DOMAIN request
                  /\ request.output_config = [effort |-> as_str(thinking.v.effort)]

(* C30, amended: as stated, except that with adaptive mode the effort tier *)
(* is attached (as output_config) only when it is not High; with the tier  *)
(* High, and with a budget, output_config is not a key of the request.     *)
C30_ThinkingAttached ==
    Sent({"anthropic"}) =>
        LET request == probe.request.v
            thinking == probe.q.thinking
        IN  /\ "thinking" \in DOMAIN request <=> IsSome(thinking)
            /\ ~IsSome(thinking) => "output_config" \notin DOMAIN request
            /\ (IsSome(thinking) /\ thinking.v.type = "enabled") =>
                  /\ request.thinking =
                        [type |-> "enabled", budget_tokens |-> thinking.v.budget_tokens]
                  /\ "output_config" \notin DOMAIN request
            /\ (IsSome(thinking) /\ thinking.v.type = "adaptive") =>
                  /\ request.thinking = [type |-> "adaptive"]
                  /\ thinking.v.effort = "High" => "output_config" \notin DOMAIN request
                  /\ thinking.v.effort # "High" =>
                        /\ "output_config" \in DOMAIN request
                        /\ request.output_config = [effort |-> as_str(thinking.v.effort)]

(* A request was sent with adaptive thinking at the tier High: it carries  *)
(* the adaptive marker and no output_config.                               *)
C30_Witness ==
    /\ Sent({"anthropic"})
    /\ probe.q.thinking = Some([type |-> "adaptive", effort |-> "High"])
    /\ probe.request.v.thinking = [type |-> "adaptive"]
    /\ "output_config" \notin DOMAIN probe.request.v

----------------------------------------------------------------------------
(* The stages the pipeline of job j runs when every call succeeds, in the  *)
(* order the code reaches them.                                            *)
Plan(j) ==
    SelectSeq(<<"safeguard", "generation", "translation">>,
              LAMBDA stage :
                  CASE stage = "safeguard" ->
                           /\ SafeguardEntered(task[j].user_context)
                           /\ SafeguardEnabled(config)
                    [] stage = "generation" -> TRUE
                    [] stage = "translation" ->
                           NeedsTranslation(config, task[j].lang))

(* C31: the provider calls of one job are a prefix of its stages taken in  *)
(* the order safeguard, generation, translation, so at most three calls    *)
(* and at most one per stage; at most one call is in flight, and it is in  *)
(* flight exactly while the pipeline waits for it; every call but the last *)
(* returned successfully before the next one started; and a failed call is *)
(* the last call of the job, whose pipeline has then returned.             *)
C31_SequentialNoRetry ==
    \A j \in Ids :
        LET calls == log[j].calls
            replies == log[j].replies
        IN  /\ Len(calls) <= 3
            /\ Len(calls) <= Len(Plan(j))
            /\ \A k \in 1..Len(calls) : calls[k].stage = Plan(j)[k]
            /\ \A stage \in {"safeguard", "generation", "translation"} :
                  Cardinality(CallsOf(j, stage)) <= 1
            /\ Len(replies) <= Len(calls)
            /\ Len(calls) - Len(replies) = (IF Awaiting(j) THEN 1 ELSE 0)
            /\ \A k \in 1..Len(calls) : k < Len(calls) => IsOk(replies[k])
            /\ \A k \in 1..Len(replies) :
                  ~IsOk(replies[k]) => k = Len(calls) /\ PipelineDone(j)

(* A job whose three stages were all due ended after its generation call   *)
(* timed out: two calls were made and the translation call never was.      *)
C31_Witness ==
    \E j \in Ids :
        /\ Len(Plan(j)) = 3
        /\ TaskDone(j)
        /\ Len(log[j].calls) = 2
        /\ log[j].replies[2] = Err(TimedOut)

----------------------------------------------------------------------------
(* C34, as stated: of the get_analysis_status calls on one id whose job    *)
(* reached Complete(T) or Error(m), at most one answers with that result:  *)
(* no two calls past their status read are both about to return it, and    *)
(* none is about to return it after another call already did.              *)
C34_AsStated ==
    \A p \in Matched :
        Delivers(handler[p].seen) =>
            /\ ~log[handler[p].job_id].delivered
            /\ \A q \in Matched \ {p} :
                  handler[q].job_id = handler[p].job_id => ~Delivers(handler[q].seen)

----------------------------------------------------------------------------
(* The safeguard call of job j was made and failed.                        *)
SafeguardFailed(j) ==
    /\ 1 \in CallsOf(j, "safeguard")
    /\ Returned(j, 1)
    /\ ~IsOk(log[j].replies[1])

(* The pipeline of job j got as far as the generation stage.               *)
GenerationReached(j) ==
    task[j].pc = "generate" \/ CallsOf(j, "generation") # {}

(* C35: when the safeguard call itself fails, the pipeline returns that    *)
(* failure, no generation or translation call is made and the job ends in  *)
(* Error with that failure's text; generation is reached only after a      *)
(* safeguard reply that contains SAFE and not UNSAFE once trimmed and      *)
(* uppercased, or when no safeguard call was made.                         *)
C35_FailsClosed ==
    \A j \in Ids :
        /\ SafeguardFailed(j) =>
              /\ task[j].result = Some(log[j].replies[1])
              /\ log[j].replies[1].e.kind \in
                     {"Config", "Request", "ApiError", "ParseResponse", "EmptyResponse"}
              /\ Len(log[j].calls) = 1
              /\ ~GenerationReached(j)
              /\ TaskDone(j) =>
                    /\ Written(j) = Error(Display(log[j].replies[1].e))
                    /\ get_job_status(jobs, j) = Some(Written(j))
        /\ GenerationReached(j) =>
              \/ CallsOf(j, "safeguard") = {}
              \/ /\ SafeguardReplied(j)
                 /\ LET u == ToUppercase(Trim(log[j].replies[1].v))
                    IN  Occurs(u, SAFE) /\ ~Occurs(u, UNSAFE)

(* The safeguard call of a job failed with an HTTP 500 and the job ended   *)
(* in Error after that single call.                                        *)
C35_Witness ==
    \E j \in Ids :
        /\ SafeguardFailed(j)
        /\ log[j].replies[1] = Err(ApiError(500, "overloaded"))
        /\ TaskDone(j)
        /\ get_job_status(jobs, j) = Some(Error("API error (500): overloaded"))

----------------------------------------------------------------------------
(* The record of job j left the store before its runner wrote a terminal   *)
(* status to it.                                                           *)
RemovedUnfinished(j) ==
    /\ log[j].evicted
    /\ ~IsTerminal(log[j].statuses[Len(log[j].statuses)])

(* The call in slot p reads the status of an id in this step.              *)
Reads(p) == handler[p].pc = "idle" /\ handler'[p].pc = "matched"

(* C36: an issued id whose record is gone from the store never gets a      *)
(* record again, whatever runs afterwards (the runner's Processing and     *)
(* terminal writes and later create_job calls included); every             *)
(* get_analysis_status call that reads such an id answers "Job not found"; *)
(* and the result of a job removed before its terminal write is delivered  *)
(* to no call.                                                             *)
C36_RemovedStaysRemoved ==
    /\ [][\A j \in Ids : j \notin DOMAIN jobs => j \notin DOMAIN jobs']_vars
    /\ [][\A p \in Handlers :
            (Reads(p) /\ handler'[p].job_id \in Ids \ DOMAIN jobs) =>
                StatusResponse(handler'[p].seen) = NotFound]_vars
    /\ [](\A j \in Ids :
            RemovedUnfinished(j) =>
                /\ ~log[j].delivered
                /\ \A p \in Matched :
                      handler[p].job_id = j => ~Delivers(handler[p].seen))

(* A job was swept while its pipeline was running; its runner has since    *)
(* made its terminal write, the store holds no record of the id, and a     *)
(* call polling the id is answering "Job not found".                       *)
C36_Witness ==
    \E j \in Ids : \E p \in Matched :
        /\ RemovedUnfinished(j)
        /\ log[j].statuses = <<Pending, Processing>>
        /\ TaskDone(j)
        /\ IsTerminal(Written(j))
        /\ j \notin DOMAIN jobs
        /\ handler[p].job_id = j
        /\ Response(p) = NotFound

----------------------------------------------------------------------------
(* C37: create_job(id) at time t removes exactly the entries whose age is  *)
(* at least one hour, stores (id, Pending, t), and leaves the status and   *)
(* the creation time of every other entry as they were; no entry younger   *)
(* than one hour is removed.                                               *)
C37_SweepOnlyExpired ==
    (probe.pc = "done" /\ probe.fn = "create_job") =>
        LET old == probe.store
            new == probe.out
            id == probe.job_id
        IN  /\ DOMAIN new =
                   {i \in DOMAIN old : Age(old, i, probe.t) < MAX_AGE} \cup {id}
            /\ new[id] = [status |-> Pending, created_at |-> probe.t]
            /\ \A i \in DOMAIN new \ {id} : new[i] = old[i]
            /\ \A i \in DOMAIN old \ DOMAIN new : Age(old, i, probe.t) >= MAX_AGE

(* One create_job call dropped a Processing record that was exactly one    *)
(* hour old and kept a Complete record one second younger.                 *)
C37_Witness ==
    /\ probe.pc = "done"
    /\ probe.fn = "create_job"
    /\ \E i, k \in DOMAIN probe.store :
          /\ probe.store[i].status = Processing
          /\ Age(probe.store, i, probe.t) = MAX_AGE
          /\ i \notin DOMAIN probe.out
          /\ probe.store[k].status = Complete("T1")
          /\ Age(probe.store, k, probe.t) = MAX_AGE - 1
          /\ k \in DOMAIN probe.out
          /\ probe.out[k] = probe.store[k]

----------------------------------------------------------------------------
----------------------------------------------------------------------------
(* The language an interface language code stands for.                     *)
LanguageOf(code) == CHOOSE l \in SourceLanguage : Code(l) = code

(* C39, as stated: for every interface language code (en, ru, zh) that     *)
(* differs from the source language, the translation prompt names the      *)
(* language of that code as its target.                                    *)
C39_AsStated ==
    \A j \in Ids : \A k \in CallsOf(j, "translation") :
        log[j].calls[k].user.target_name = Name(LanguageOf(task[j].lang))

----------------------------------------------------------------------------
(* calculate was applied; its arguments and what it returned.              *)
Scored == probe.pc = "done" /\ probe.fn = "calculate"

(* The positions of the answers whose value is not one of 1..5.            *)
BadValues(answers) == {i \in DOMAIN answers : answers[i].value \notin 1..5}

(* C32: calculate returns InvalidAnswerCount(n) and no profile when the    *)
(* number n of answers is not 120; with 120 answers of which some value is *)
(* outside 1..5 it returns InvalidAnswerValue(v) and no profile, v being   *)
(* the first such value of the list; and it returns a profile only when    *)
(* each of the 120 questions of the inventory has an answer in 1..5.       *)
C32_ValidatesInput ==
    Scored =>
        LET answers == probe.answers
            bad == BadValues(answers)
        IN  /\ Len(answers) # 120 =>
                  probe.out = Err(InvalidAnswerCount(Len(answers)))
            /\ (Len(answers) = 120 /\ bad # {}) =>
                  \E i \in bad :
                      /\ \A k \in bad : i <= k
                      /\ probe.out = Err(InvalidAnswerValue(answers[i].value))
            /\ IsOk(probe.out) =>
                  /\ Len(answers) = 120
                  /\ Len(probe.inventory) = 120
                  /\ \A q \in DOMAIN probe.inventory :
                        \E i \in DOMAIN answers :
                            /\ answers[i].question_id = probe.inventory[q].id
                            /\ answers[i].value \in 1..5

(* calculate rejected 120 answers whose first value is 0 and whose 61st   *)
(* value is 6 with InvalidAnswerValue(0).                                  *)
C32_Witness ==
    /\ Scored
    /\ Len(probe.answers) = 120
    /\ probe.answers[1].value = 0
    /\ probe.answers[61].value = 6
    /\ probe.out = Err(InvalidAnswerValue(0))

----------------------------------------------------------------------------
(* The profile calculate returned, and the scores in it.                   *)
Profile == probe.out.v

DomainRaw(d) == Profile.domains[d].raw

FacetRaw(d, f) == Profile.domains[d].facets[f].raw

(* The questions of a facet (positions in the inventory), and the value    *)
(* answered to a question.                                                 *)
QuestionsOf(d, f) ==
    {q \in DOMAIN probe.inventory :
        /\ probe.inventory[q].domain = Domains[d]
        /\ probe.inventory[q].facet_index = f}

Answered(q) ==
    LET i == CHOOSE i \in DOMAIN probe.answers :
                 probe.answers[i].question_id = probe.inventory[q].id
    IN  probe.answers[i].value

(* What a question contributes: v when keyed normally, 6 - v when reversed. *)
Keyed(q) == IF probe.inventory[q].reversed THEN 6 - Answered(q) ELSE Answered(q)

(* The sum of the values of a function with a finite domain.               *)
RECURSIVE Total(_)
Total(f) ==
    IF DOMAIN f = {} THEN 0
    ELSE LET x == CHOOSE x \in DOMAIN f : TRUE
         IN  f[x] + Total([y \in DOMAIN f \ {x} |-> f[y]])

(* C33: in every profile calculate returns, a facet's raw score is the sum *)
(* over its four questions of the answer value for a normally keyed        *)
(* question and of 6 minus the value for a reverse-keyed one, and a        *)
(* domain's raw score is the sum of its six facet raw scores; when every   *)
(* answer is 3, every facet scores 12 and every domain 72.                 *)
C33_RawScores ==
    (Scored /\ IsOk(probe.out)) =>
        \A d \in DOMAIN Domains :
            /\ \A f \in FacetIndexes :
                  /\ Cardinality(QuestionsOf(d, f)) = 4
                  /\ FacetRaw(d, f) = Total([q \in QuestionsOf(d, f) |-> Keyed(q)])
                  /\ (\A i \in DOMAIN probe.answers : probe.answers[i].value = 3) =>
                        FacetRaw(d, f) = 12
            /\ DomainRaw(d) = Total([f \in FacetIndexes |-> FacetRaw(d, f)])
            /\ (\A i \in DOMAIN probe.answers : probe.answers[i].value = 3) =>
                  DomainRaw(d) = 72

(* In a list of threes the reverse-keyed question 61 was answered 1 and    *)
(* the normally keyed question 1 of the same facet 5: the facet scores 16. *)
C33_Witness ==
    /\ Scored
    /\ IsOk(probe.out)
    /\ probe.inventory[61].reversed /\ ~probe.inventory[1].reversed
    /\ \E d \in DOMAIN Domains : \E f \in FacetIndexes :
          /\ {1, 61} \subseteq QuestionsOf(d, f)
          /\ Answered(1) = 5
          /\ Answered(61) = 1
          /\ \A q \in DOMAIN probe.inventory \ {1, 61} : Answered(q) = 3
          /\ FacetRaw(d, f) = 16

----------------------------------------------------------------------------
(* C40: every profile calculate returns has the five domains in their      *)
(* order with the six facets of each in theirs; every facet raw score is   *)
(* in 4..20 and every domain raw score in 24..120; and each stored score   *)
(* is the whole sum it was narrowed from: no sum exceeds 255.              *)
C40_ProfileShape ==
    (Scored /\ IsOk(probe.out)) =>
        /\ DOMAIN Profile.domains = 1..5
        /\ \A d \in 1..5 :
              /\ Profile.domains[d].domain = Domains[d]
              /\ DOMAIN Profile.domains[d].facets = 1..6
              /\ \A f \in 1..6 :
                    /\ Profile.domains[d].facets[f].facet = Facet(Domains[d], f)
                    /\ FacetRaw(d, f) \in 4..20
                    /\ Total([q \in QuestionsOf(d, f) |-> Keyed(q)]) <= 255
                    /\ FacetRaw(d, f) = Total([q \in QuestionsOf(d, f) |-> Keyed(q)])
              /\ DomainRaw(d) \in 24..120
              /\ Total([q \in UNION {QuestionsOf(d, f) : f \in 1..6} |-> Keyed(q)]) <= 255
              /\ DomainRaw(d) =
                     Total([q \in UNION {QuestionsOf(d, f) : f \in 1..6} |-> Keyed(q)])

(* One profile holds both ends of both ranges: a domain at 120 with a      *)
(* facet at 20, and a domain at 24 with a facet at 4.                      *)
C40_Witness ==
    /\ Scored
    /\ IsOk(probe.out)
    /\ \E d, e \in 1..5 :
          /\ DomainRaw(d) = 120 /\ FacetRaw(d, 1) = 20
          /\ DomainRaw(e) = 24 /\ FacetRaw(e, 6) = 4

============================================================================
